---------------------------- MODULE Spec2Model ----------------------------
(***************************************************************************)
(* SwasthiQ appointment management backend.                                *)
(*                                                                         *)
(* The model follows src/backend/appointment_service.py (the in-memory     *)
(* AppointmentService), src/backend/appointment_validators.py (the field   *)
(* validator) and src/backend/api_server.py (the Flask handlers).          *)
(*                                                                         *)
(* Python str values are sequences of one-character strings, so that       *)
(* str.strip, len, f-string concatenation and datetime.strptime are        *)
(* computed on the characters.  Payload values are tagged with their       *)
(* Python type ([t |-> "str", v |-> ...]); a payload is a function from    *)
(* the keys it holds to such values.                                       *)
(***************************************************************************)
EXTENDS Integers, Sequences, FiniteSets, TLC

VARIABLES
    appointments,   \* AppointmentService.appointments: the list of Appointment
    memory,         \* the Appointment objects (heap) and which of them the
                    \* list holds, in order (refs)
    listed,         \* the list get_appointments returned last: its objects
                    \* (refs) and their values when it was returned
    before,         \* history: the list as it was when the last call began
    call,           \* the service call made last: its name and arguments
    result,         \* what that call returned
    issued,         \* history: the ids of the appointments create has returned
    deleted,        \* history: the ids delete has returned True for
    calls,          \* number of calls made so far
    pc,             \* HTTP layer: where each worker thread is in its handler
    req,            \* HTTP layer: the request each worker thread is serving
    local,          \* HTTP layer: the local variables of each handler
    response        \* HTTP layer: the response each worker thread sent last

vars ==
    <<appointments, memory, listed, before, call, result, issued, deleted,
      calls, pc, req, local, response>>

(***************************************************************************)
(* Bounds of the model.                                                    *)
(***************************************************************************)
MaxCalls == 3

\* retries of the id loop of create_appointment that one call may take
MaxRetries == 1

\* the fields in which a payload built field by field differs from the base
MaxDeviations == 2

(***************************************************************************)
(* Python str: characters, whitespace, strip.                              *)
(***************************************************************************)
Digit == {"0", "1", "2", "3", "4", "5", "6", "7", "8", "9"}

DigitValue(c) ==
    CASE c = "0" -> 0 [] c = "1" -> 1 [] c = "2" -> 2 [] c = "3" -> 3
      [] c = "4" -> 4 [] c = "5" -> 5 [] c = "6" -> 6 [] c = "7" -> 7
      [] c = "8" -> 8 [] c = "9" -> 9

Whitespace == {" ", "\t", "\n", "\r"}

RECURSIVE lstrip(_)
lstrip(s) ==
    IF s # <<>> /\ Head(s) \in Whitespace THEN lstrip(Tail(s)) ELSE s

RECURSIVE rstrip(_)
rstrip(s) ==
    IF s # <<>> /\ s[Len(s)] \in Whitespace
    THEN rstrip(SubSeq(s, 1, Len(s) - 1))
    ELSE s

\* str.strip(): leading and trailing whitespace removed
strip(s) == rstrip(lstrip(s))

(***************************************************************************)
(* Python values of a payload, tagged with their type.                     *)
(***************************************************************************)
StrValue(s) == [t |-> "str", v |-> s]
IntValue(n) == [t |-> "int", v |-> n]
NoneValue == [t |-> "NoneType", v |-> 0]
\* a float with the value of the integer n, such as 30.0
FloatValue(n) == [t |-> "float", v |-> n]
\* True as a JSON body carries it: a bool is an int, and True == 1
TrueValue == [t |-> "bool", v |-> 1]
\* IsInt that takes a float for an int
IsInt_AnyNumber(x) == x.t \in {"int", "bool", "float"}

\* isinstance(x, int)
IsInt(x) == x.t \in {"int", "bool"}

\* x is None
IsNone(x) == x.t = "NoneType"

\* bool(x): the empty str, 0, 0.0 and None are false
Truthy(x) ==
    CASE x.t = "str" -> x.v # <<>>
      [] x.t \in {"int", "float", "bool"} -> x.v # 0
      [] OTHER -> FALSE

(***************************************************************************)
(* Text of the program: enumerations and the seed data.                    *)
(***************************************************************************)
Confirmed == <<"C", "o", "n", "f", "i", "r", "m", "e", "d">>
Scheduled == <<"S", "c", "h", "e", "d", "u", "l", "e", "d">>
Upcoming == <<"U", "p", "c", "o", "m", "i", "n", "g">>
Cancelled == <<"C", "a", "n", "c", "e", "l", "l", "e", "d">>
InPerson == <<"I", "n", "-", "p", "e", "r", "s", "o", "n">>
Virtual == <<"V", "i", "r", "t", "u", "a", "l">>
Phone == <<"P", "h", "o", "n", "e">>
DrSarahJohnson == <<"D", "r", ".", " ", "S", "a", "r", "a", "h", " ", "J",
                    "o", "h", "n", "s", "o", "n">>
DrMichaelChen == <<"D", "r", ".", " ", "M", "i", "c", "h", "a", "e", "l",
                   " ", "C", "h", "e", "n">>
DrJamesRodriguez == <<"D", "r", ".", " ", "J", "a", "m", "e", "s", " ",
                      "R", "o", "d", "r", "i", "g", "u", "e", "z">>

mock_appointments ==
    <<
      [id |-> <<"a", "p", "t", "_", "0", "0", "1">>,
       patient_name |-> <<"J", "o", "h", "n", " ", "S", "m", "i", "t", "h">>,
       date |-> <<"2", "0", "2", "4", "-", "1", "2", "-", "2", "7">>,
       time |-> <<"0", "9", ":", "0", "0">>, duration |-> 30,
       doctor_name |-> DrSarahJohnson, status |-> Confirmed, mode |-> InPerson],
      [id |-> <<"a", "p", "t", "_", "0", "0", "2">>,
       patient_name |-> <<"E", "m", "i", "l", "y", " ", "D", "a", "v", "i",
                          "s">>,
       date |-> <<"2", "0", "2", "4", "-", "1", "2", "-", "2", "7">>,
       time |-> <<"1", "0", ":", "3", "0">>, duration |-> 45,
       doctor_name |-> DrMichaelChen, status |-> Scheduled, mode |-> Virtual],
      [id |-> <<"a", "p", "t", "_", "0", "0", "3">>,
       patient_name |-> <<"R", "o", "b", "e", "r", "t", " ", "W", "i", "l",
                          "s", "o", "n">>,
       date |-> <<"2", "0", "2", "4", "-", "1", "2", "-", "2", "8">>,
       time |-> <<"1", "4", ":", "0", "0">>, duration |-> 60,
       doctor_name |-> DrSarahJohnson, status |-> Upcoming, mode |-> InPerson],
      [id |-> <<"a", "p", "t", "_", "0", "0", "4">>,
       patient_name |-> <<"L", "i", "s", "a", " ", "A", "n", "d", "e", "r",
                          "s", "o", "n">>,
       date |-> <<"2", "0", "2", "4", "-", "1", "2", "-", "2", "6">>,
       time |-> <<"1", "1", ":", "1", "5">>, duration |-> 30,
       doctor_name |-> DrJamesRodriguez, status |-> Confirmed, mode |-> Phone],
      [id |-> <<"a", "p", "t", "_", "0", "0", "5">>,
       patient_name |-> <<"D", "a", "v", "i", "d", " ", "B", "r", "o", "w",
                          "n">>,
       date |-> <<"2", "0", "2", "4", "-", "1", "2", "-", "2", "9">>,
       time |-> <<"0", "8", ":", "3", "0">>, duration |-> 45,
       doctor_name |-> DrMichaelChen, status |-> Scheduled, mode |-> Virtual],
      [id |-> <<"a", "p", "t", "_", "0", "0", "6">>,
       patient_name |-> <<"J", "e", "n", "n", "i", "f", "e", "r", " ", "T",
                          "a", "y", "l", "o", "r">>,
       date |-> <<"2", "0", "2", "4", "-", "1", "2", "-", "2", "6">>,
       time |-> <<"1", "5", ":", "4", "5">>, duration |-> 30,
       doctor_name |-> DrSarahJohnson, status |-> Cancelled, mode |-> InPerson],
      [id |-> <<"a", "p", "t", "_", "0", "0", "7">>,
       patient_name |-> <<"M", "a", "r", "k", " ", "T", "h", "o", "m", "p",
                          "s", "o", "n">>,
       date |-> <<"2", "0", "2", "4", "-", "1", "2", "-", "3", "0">>,
       time |-> <<"1", "3", ":", "0", "0">>, duration |-> 60,
       doctor_name |-> DrJamesRodriguez, status |-> Upcoming, mode |-> InPerson],
      [id |-> <<"a", "p", "t", "_", "0", "0", "8">>,
       patient_name |-> <<"A", "m", "a", "n", "d", "a", " ", "W", "h", "i",
                          "t", "e">>,
       date |-> <<"2", "0", "2", "4", "-", "1", "2", "-", "2", "7">>,
       time |-> <<"1", "6", ":", "3", "0">>, duration |-> 30,
       doctor_name |-> DrMichaelChen, status |-> Confirmed, mode |-> Virtual],
      [id |-> <<"a", "p", "t", "_", "0", "0", "9">>,
       patient_name |-> <<"C", "h", "r", "i", "s", "t", "o", "p", "h", "e",
                          "r", " ", "L", "e", "e">>,
       date |-> <<"2", "0", "2", "4", "-", "1", "2", "-", "2", "5">>,
       time |-> <<"1", "0", ":", "0", "0">>, duration |-> 45,
       doctor_name |-> DrSarahJohnson, status |-> Confirmed, mode |-> Phone],
      [id |-> <<"a", "p", "t", "_", "0", "1", "0">>,
       patient_name |-> <<"M", "i", "c", "h", "e", "l", "l", "e", " ", "G",
                          "a", "r", "c", "i", "a">>,
       date |-> <<"2", "0", "2", "4", "-", "1", "2", "-", "2", "8">>,
       time |-> <<"0", "9", ":", "1", "5">>, duration |-> 30,
       doctor_name |-> DrJamesRodriguez, status |-> Scheduled, mode |-> InPerson],
      [id |-> <<"a", "p", "t", "_", "0", "1", "1">>,
       patient_name |-> <<"K", "e", "v", "i", "n", " ", "M", "a", "r", "t",
                          "i", "n", "e", "z">>,
       date |-> <<"2", "0", "2", "4", "-", "1", "2", "-", "3", "1">>,
       time |-> <<"1", "1", ":", "0", "0">>, duration |-> 60,
       doctor_name |-> DrMichaelChen, status |-> Upcoming, mode |-> Virtual],
      [id |-> <<"a", "p", "t", "_", "0", "1", "2">>,
       patient_name |-> <<"R", "a", "c", "h", "e", "l", " ", "C", "l", "a",
                          "r", "k">>,
       date |-> <<"2", "0", "2", "4", "-", "1", "2", "-", "2", "6">>,
       time |-> <<"1", "4", ":", "3", "0">>, duration |-> 45,
       doctor_name |-> DrSarahJohnson, status |-> Confirmed, mode |-> InPerson]
    >>

valid_modes == <<InPerson, Virtual, Phone>>
valid_statuses == <<Confirmed, Scheduled, Upcoming, Cancelled>>

Range(seq) == {seq[i] : i \in 1..Len(seq)}

(***************************************************************************)
(* The inputs the calls are drawn from.  Dr. Sarah Johnson has, in the     *)
(* seed data, apt_001 on 2024-12-27 (09:00, 30 minutes, Confirmed) and, on *)
(* 2024-12-26, apt_012 (14:30, 45 minutes, Confirmed) and apt_006 (15:45,  *)
(* 30 minutes, Cancelled); the payloads lie around these.                  *)
(***************************************************************************)
Dec26 == <<"2", "0", "2", "4", "-", "1", "2", "-", "2", "6">>
Dec27 == <<"2", "0", "2", "4", "-", "1", "2", "-", "2", "7">>
Feb30 == <<"2", "0", "2", "4", "-", "0", "2", "-", "3", "0">>

Payload(patient, date, time, duration, doctor, mode) ==
    [patient_name |-> StrValue(patient), date |-> StrValue(date),
     time |-> StrValue(time), duration |-> IntValue(duration),
     doctor_name |-> StrValue(doctor), mode |-> StrValue(mode)]

\* a payload for Dr. Sarah Johnson with everything but the slot fixed
Slot(date, time, duration) ==
    Payload(<<"A", "l">>, date, time, duration, DrSarahJohnson, Virtual)

\* payload with key set to value / without key
With(payload, key, value) ==
    [k \in DOMAIN payload \cup {key} |->
        IF k = key THEN value ELSE payload[k]]

Without(payload, key) == [k \in DOMAIN payload \ {key} |-> payload[k]]

\* payloads that pass every validation rule
ValidPayloads ==
    { Slot(Dec27, <<"0", "8", ":", "3", "0">>, 30),      \* ends when apt_001 starts
      Slot(Dec27, <<"0", "8", ":", "4", "5">>, 30),      \* overlaps the start of apt_001
      Slot(Dec27, <<"0", "9", ":", "1", "5">>, 30),      \* overlaps the end of apt_001
      With(With(Slot(Dec27, <<"0", "9", ":", "3", "0">>, 30),   \* starts when apt_001 ends
                "patient_name", StrValue(<<" ", "A", "l", " ">>)),
           "doctor_name", StrValue(DrSarahJohnson \o <<" ">>)),
      Slot(Dec27, <<"0", "8", ":", "3", "0">>, 90),      \* contains apt_001
      Slot(Dec26, <<"1", "5", ":", "4", "5">>, 30),      \* the slot of the cancelled apt_006
      Slot(Dec26, <<"1", "5", ":", "0", "0">>, 60),      \* overlaps apt_012 and apt_006
      With(Slot(Dec26, <<"1", "6", ":", "0", "0">>, 30), "status", StrValue(Confirmed)),
      With(Slot(Dec26, <<"1", "4", ":", "4", "5">>, 30), "status", StrValue(Cancelled)),
      With(Slot(Dec27, <<"9", ":", "1", "5">>, 30), "doctor_name",
           StrValue(<<" ">> \o DrSarahJohnson \o <<" ">>)) }

\* payloads that break a rule; all but the first ask for the slot of apt_001
InvalidPayloads ==
    LET p == Slot(Dec27, <<"0", "9", ":", "0", "0">>, 30)
    IN  { Without(Slot(Dec26, <<"1", "5", ":", "4", "5">>, 30), "mode"),
          With(p, "duration", IntValue(0)),
          With(p, "duration", IntValue(481)),
          With(p, "date", StrValue(Feb30)),
          With(p, "time", StrValue(<<"2", "5", ":", "0", "0">>)),
          With(p, "mode", StrValue(<<"O", "n", "l", "i", "n", "e">>)),
          With(p, "patient_name", StrValue(<<" ", "A", " ">>)),
          With(p, "status", StrValue(<<"P", "e", "n", "d", "i", "n", "g">>)),
          With(Slot(Dec26, <<"1", "5", ":", "4", "5">>, 30), "status", StrValue(<<>>)) }

Payloads == ValidPayloads \cup InvalidPayloads

\* payloads around midnight for Dr. Sarah Johnson: an hour that starts on
\* Dec 26 and ends on Dec 27, half an hour inside it on Dec 26, the first
\* half hour of Dec 27, and the first half hour of Dec 27 for another doctor
NightPayloads ==
    { Slot(Dec26, <<"2", "3", ":", "3", "0">>, 60),
      Slot(Dec26, <<"2", "3", ":", "4", "5">>, 30),
      Slot(Dec27, <<"0", "0", ":", "0", "0">>, 30),
      With(Slot(Dec27, <<"0", "0", ":", "0", "0">>, 30), "doctor_name",
           StrValue(DrMichaelChen)) }

\* a payload for the last minute of the last day a datetime can hold
LastMinute ==
    Slot(<<"9", "9", "9", "9", "-", "1", "2", "-", "3", "1">>,
         <<"2", "3", ":", "5", "9">>, 30)

(***************************************************************************)
(* Payloads field by field.  A payload takes, for each field, the base     *)
(* value (a free slot of Dr. Sarah Johnson next to apt_001, no status) or  *)
(* one of the other values listed, and differs from the base in at most    *)
(* MaxDeviations fields.                                                   *)
(***************************************************************************)
FieldNames ==
    {"patient_name", "date", "time", "duration", "doctor_name", "mode",
     "status"}

\* stands for a key the payload does not have
Absent == [t |-> "absent", v |-> 0]

BaseFields ==
    [patient_name |-> StrValue(<<"A", "l">>),
     date |-> StrValue(Dec27),
     time |-> StrValue(<<"0", "9", ":", "3", "0">>),
     duration |-> IntValue(30),
     doctor_name |-> StrValue(DrSarahJohnson),
     mode |-> StrValue(Virtual),
     status |-> Absent]

OtherFields ==
    [patient_name |->
         << StrValue(<<" ", "A", " ">>), StrValue(<<>>), IntValue(12),
            Absent >>,
     date |->
         << StrValue(Feb30),
            StrValue(<<"2", "0", "2", "4", "-", "1", "-", "5">>),
            StrValue(<<>>), Absent >>,
     time |->
         << StrValue(<<"0", "9", ":", "1", "5">>),   \* overlaps apt_001
            StrValue(<<"9", ":", "4", "5">>),
            StrValue(<<"2", "5", ":", "0", "0">>),
            StrValue(<<>>), Absent >>,
     duration |->
         << IntValue(1), IntValue(480), IntValue(481), IntValue(0),
            IntValue(-5), StrValue(<<"3", "0">>), FloatValue(30), TrueValue,
            Absent >>,
     doctor_name |->
         << StrValue(<<" ">> \o DrSarahJohnson \o <<" ">>),
            StrValue(<<"D">>), StrValue(<<>>), Absent >>,
     mode |->
         << StrValue(<<"O", "n", "l", "i", "n", "e">>), StrValue(<<>>),
            NoneValue, Absent >>,
     status |->
         << StrValue(Confirmed), StrValue(Cancelled),
            StrValue(<<"P", "e", "n", "d", "i", "n", "g">>), StrValue(<<>>),
            NoneValue >>]

\* a choice names, for each field, the base value (0) or the position of
\* one of the other values
FieldChoices ==
    {c \in [patient_name : 0..Len(OtherFields.patient_name),
            date : 0..Len(OtherFields.date),
            time : 0..Len(OtherFields.time),
            duration : 0..Len(OtherFields.duration),
            doctor_name : 0..Len(OtherFields.doctor_name),
            mode : 0..Len(OtherFields.mode),
            status : 0..Len(OtherFields.status)] :
        Cardinality({f \in FieldNames : c[f] # 0}) <= MaxDeviations}

FieldValue(c, f) == IF c[f] = 0 THEN BaseFields[f] ELSE OtherFields[f][c[f]]

PayloadOf(c) ==
    [f \in {g \in FieldNames : FieldValue(c, g).t # "absent"} |->
        FieldValue(c, f)]

\* the texts among the values of a field
FieldTexts(f) ==
    {OtherFields[f][i].v :
        i \in {j \in 1..Len(OtherFields[f]) : OtherFields[f][j].t = "str"}}
    \cup {BaseFields[f].v}

(***************************************************************************)
(* datetime.strptime.  The format is a sequence of tokens: a directive     *)
(* ("%Y", "%m", "%d", "%H", "%M"), a blank (whitespace in the format,      *)
(* which the library turns into \s+) or a literal character.  The library  *)
(* compiles the format to a regular expression, takes the first match in   *)
(* the order of the alternatives (backtracking), and then requires the     *)
(* match to end where the string ends.                                     *)
(***************************************************************************)
At(s, p, set) == p >= 1 /\ p <= Len(s) /\ s[p] \in set

RECURSIVE SpaceRun(_, _)
SpaceRun(s, p) == IF At(s, p, Whitespace) THEN 1 + SpaceRun(s, p + 1) ELSE 0

\* the lengths n, n-1, .., 1 a greedy \s+ tries, in order
Descending(n) == [k \in 1..n |-> n + 1 - k]

\* The lengths one token of the format can match at position p of s, in
\* the order the regular expression tries them.
TokenLengths(tok, s, p) ==
    CASE tok = "%Y" ->
           IF \A k \in 0..3 : At(s, p + k, Digit) THEN <<4>> ELSE <<>>
      [] tok = "%m" ->              \* 1[0-2]|0[1-9]|[1-9]
           (IF \/ At(s, p, {"1"}) /\ At(s, p + 1, {"0", "1", "2"})
               \/ At(s, p, {"0"}) /\ At(s, p + 1, Digit \ {"0"})
            THEN <<2>> ELSE <<>>)
           \o (IF At(s, p, Digit \ {"0"}) THEN <<1>> ELSE <<>>)
      [] tok = "%d" ->              \* 3[0-1]|[1-2]\d|0[1-9]|[1-9]| [1-9]
           (IF \/ At(s, p, {"3"}) /\ At(s, p + 1, {"0", "1"})
               \/ At(s, p, {"1", "2"}) /\ At(s, p + 1, Digit)
               \/ At(s, p, {"0"}) /\ At(s, p + 1, Digit \ {"0"})
            THEN <<2>> ELSE <<>>)
           \o (IF At(s, p, Digit \ {"0"}) THEN <<1>> ELSE <<>>)
           \o (IF At(s, p, {" "}) /\ At(s, p + 1, Digit \ {"0"})
               THEN <<2>> ELSE <<>>)
      [] tok = "%H" ->              \* 2[0-3]|[0-1]\d|\d
           (IF \/ At(s, p, {"2"}) /\ At(s, p + 1, {"0", "1", "2", "3"})
               \/ At(s, p, {"0", "1"}) /\ At(s, p + 1, Digit)
            THEN <<2>> ELSE <<>>)
           \o (IF At(s, p, Digit) THEN <<1>> ELSE <<>>)
      [] tok = "%M" ->              \* [0-5]\d|\d
           (IF At(s, p, {"0", "1", "2", "3", "4", "5"}) /\ At(s, p + 1, Digit)
            THEN <<2>> ELSE <<>>)
           \o (IF At(s, p, Digit) THEN <<1>> ELSE <<>>)
      [] tok = " " -> Descending(SpaceRun(s, p))
      [] OTHER -> IF At(s, p, {tok}) THEN <<1>> ELSE <<>>

\* The first match of the tokens fmt[i..] at position p of s: the matched
\* lengths, token by token; ok is FALSE when nothing matches.
RECURSIVE RegexMatch(_, _, _, _)
RECURSIVE TryLengths(_, _, _, _, _, _)
RegexMatch(fmt, i, s, p) ==
    IF i > Len(fmt)
    THEN [ok |-> TRUE, lens |-> <<>>]
    ELSE TryLengths(fmt, i, s, p, TokenLengths(fmt[i], s, p), 1)

RECURSIVE Continue(_, _, _, _, _, _, _)
TryLengths(fmt, i, s, p, cand, k) ==
    IF k > Len(cand)
    THEN [ok |-> FALSE, lens |-> <<>>]
    ELSE Continue(fmt, i, s, p, cand, k,
                  RegexMatch(fmt, i + 1, s, p + cand[k]))

\* candidate k stands if the rest of the format matches after it;
\* otherwise the next candidate is tried
Continue(fmt, i, s, p, cand, k, rest) ==
    IF rest.ok
    THEN [ok |-> TRUE, lens |-> <<cand[k]>> \o rest.lens]
    ELSE TryLengths(fmt, i, s, p, cand, k + 1)

RECURSIVE SumTo(_, _)
SumTo(lens, n) == IF n = 0 THEN 0 ELSE lens[n] + SumTo(lens, n - 1)

\* int() of a matched group; the blank of " 7" (%d) is skipped
RECURSIVE ToInt(_)
ToInt(s) ==
    IF s = <<>> THEN 0
    ELSE IF s[Len(s)] \in Digit
         THEN 10 * ToInt(SubSeq(s, 1, Len(s) - 1)) + DigitValue(s[Len(s)])
         ELSE ToInt(SubSeq(s, 1, Len(s) - 1))

IsLeap(y) == y % 4 = 0 /\ (y % 100 # 0 \/ y % 400 = 0)

DaysInMonth(y, m) ==
    IF m = 2 THEN (IF IsLeap(y) THEN 29 ELSE 28)
    ELSE IF m \in {4, 6, 9, 11} THEN 30 ELSE 31

\* The value of the group of directive tok in a match, or dflt when the
\* format has no such directive.
GroupAt(s, lens, i) ==
    ToInt(SubSeq(s, 1 + SumTo(lens, i - 1), SumTo(lens, i)))

Group(fmt, s, lens, tok, dflt) ==
    IF \E i \in 1..Len(fmt) : fmt[i] = tok
    THEN GroupAt(s, lens, CHOOSE j \in 1..Len(fmt) : fmt[j] = tok)
    ELSE dflt

\* what stands for the ValueError of strptime
NoDatetime ==
    [ok |-> FALSE, year |-> 0, month |-> 0, day |-> 0, hour |-> 0,
     minute |-> 0]

\* datetime(y, mo, d, h, mi): ValueError for year 0 and for a day the month
\* does not have
MakeDatetime(y, mo, d, h, mi) ==
    IF y < 1 \/ d > DaysInMonth(y, mo)
    THEN NoDatetime
    ELSE [ok |-> TRUE, year |-> y, month |-> mo, day |-> d, hour |-> h,
          minute |-> mi]

\* the datetime of a match m: ValueError when nothing matched or when
\* unconverted data remains
MatchedDatetime(s, fmt, m) ==
    IF ~m.ok \/ SumTo(m.lens, Len(m.lens)) # Len(s)
    THEN NoDatetime
    ELSE MakeDatetime(Group(fmt, s, m.lens, "%Y", 1900),
                      Group(fmt, s, m.lens, "%m", 1),
                      Group(fmt, s, m.lens, "%d", 1),
                      Group(fmt, s, m.lens, "%H", 0),
                      Group(fmt, s, m.lens, "%M", 0))

\* datetime.strptime(s, fmt): the datetime, or ok = FALSE for ValueError
strptime_datetime(s, fmt) == MatchedDatetime(s, fmt, RegexMatch(fmt, 1, s, 1))

DateFormat == <<"%Y", "-", "%m", "-", "%d">>
TimeFormat == <<"%H", ":", "%M">>
DateTimeFormat == <<"%Y", "-", "%m", "-", "%d", " ", "%H", ":", "%M">>

RECURSIVE DaysBeforeMonth(_, _)
DaysBeforeMonth(y, m) ==
    IF m = 1 THEN 0 ELSE DaysBeforeMonth(y, m - 1) + DaysInMonth(y, m - 1)

\* date.toordinal(): day 1 is 0001-01-01
Ordinal(y, m, d) ==
    LET p == y - 1
    IN  p * 365 + (p \div 4) - (p \div 100) + (p \div 400)
        + DaysBeforeMonth(y, m) + d

\* A datetime as minutes since 0001-01-01 00:00.  datetime comparison and
\* datetime + timedelta(minutes = n) are comparison and addition of these.
Minutes(dt) ==
    (Ordinal(dt.year, dt.month, dt.day) - 1) * 1440 + dt.hour * 60 + dt.minute

\* The texts the calls of the model have parsed: the date, the time and
\* "date time" of each appointment of the seed data and of each payload.
ParsedTexts ==
    LET Texts(date, time) == {date, time, date \o <<" ">> \o time}
        Sent == {p \in Payloads \cup NightPayloads \cup {LastMinute} :
                    p.date.t = "str" /\ p.time.t = "str"}
    IN  UNION ( {Texts(mock_appointments[i].date, mock_appointments[i].time) :
                    i \in DOMAIN mock_appointments}
                \cup {Texts(p.date.v, p.time.v) : p \in Sent}
                \cup {Texts(date, time) :
                          date \in FieldTexts("date"),
                          time \in FieldTexts("time")} )

\* strptime is a function of its arguments: what it returns for these texts
\* is computed once (@@ makes the function a table of its values)
Parsed ==
    [x \in ParsedTexts \X {DateFormat, TimeFormat, DateTimeFormat} |->
        strptime_datetime(x[1], x[2])] @@ <<>>

strptime(s, fmt) ==
    IF <<s, fmt>> \in DOMAIN Parsed
    THEN Parsed[<<s, fmt>>]
    ELSE strptime_datetime(s, fmt)

(***************************************************************************)
(* appointment_validators.py                                               *)
(***************************************************************************)
required_fields ==
    <<"patient_name", "date", "time", "duration", "doctor_name", "mode">>

\* validate_date_format: strptime raises ValueError, or TypeError for a
\* value that is not a str; both give False
validate_date_format(date_str) ==
    date_str.t = "str" /\ strptime(date_str.v, DateFormat).ok

\* validate_time_format that accepts every str
validate_time_format_AnyStr(time_str) == time_str.t = "str"

validate_time_format(time_str) ==
    time_str.t = "str" /\ strptime(time_str.v, TimeFormat).ok

\* validate_status_value that accepts every str
validate_status_value_AnyStr(status) == status.t = "str"

validate_status_value(status) ==
    status.t = "str" /\ status.v \in Range(valid_statuses)

\* the error list of the rules that follow the required-field check, in the
\* order the code appends them; a message is the tuple of its pieces
FormatErrors(data) ==
    (IF data.patient_name.t # "str" \/ Len(strip(data.patient_name.v)) < 2
     THEN << <<"Patient name must be at least 2 characters long">> >> ELSE <<>>)
    \o (IF ~validate_date_format(data.date)
        THEN << <<"Date must be in YYYY-MM-DD format">> >> ELSE <<>>)
    \o (IF ~validate_time_format(data.time)
        THEN << <<"Time must be in HH:MM format">> >> ELSE <<>>)
    \o (IF ~IsInt(data.duration) \/ data.duration.v <= 0
           \/ data.duration.v > 480
        THEN << <<"Duration must be a positive integer between 1 and 480 minutes">> >>
        ELSE <<>>)
    \o (IF data.doctor_name.t # "str" \/ Len(strip(data.doctor_name.v)) < 2
        THEN << <<"Doctor name must be at least 2 characters long">> >> ELSE <<>>)
    \o (IF ~(data.mode.t = "str" /\ data.mode.v \in Range(valid_modes))
        THEN << <<"Mode must be one of: In-person, Virtual, Phone">> >> ELSE <<>>)
    \o (IF "status" \in DOMAIN data /\ Truthy(data.status)
           /\ ~(data.status.t = "str"
                /\ data.status.v \in Range(valid_statuses))
        THEN << <<"Status must be one of: Confirmed, Scheduled, Upcoming, Cancelled">> >>
        ELSE <<>>)

\* MissingFields that stops at the first field it finds missing
MissingFields_FirstOnly(data) ==
    LET IsMissing(field) == field \notin DOMAIN data \/ ~Truthy(data[field])
        missing == SelectSeq(required_fields, IsMissing)
    IN  IF missing = <<>> THEN missing ELSE <<missing[1]>>

\* validate_appointment_data: (is_valid, list_of_errors)
MissingFields(data) ==
    LET IsMissing(field) == field \notin DOMAIN data \/ ~Truthy(data[field])
    IN  SelectSeq(required_fields, IsMissing)

MissingErrors(missing) ==
    [i \in 1..Len(missing) |-> <<"Missing required field: ", missing[i]>>]

ValidationResult(errors) == [is_valid |-> errors = <<>>, errors |-> errors]

validate_appointment_data(data) ==
    ValidationResult(IF MissingFields(data) # <<>>
                     THEN MissingErrors(MissingFields(data))
                     ELSE FormatErrors(data))

(***************************************************************************)
(* appointment_service.py                                                  *)
(***************************************************************************)
\* what a service method returns: an Appointment, an error dict or a bool
AppointmentValue(a) == [t |-> "Appointment", v |-> a]
BoolValue(b) == [t |-> "bool", v |-> b]

create_error_response(code, message, details) ==
    [t |-> "dict",
     v |-> [success |-> FALSE,
            error |-> [code |-> code, message |-> message,
                       details |-> details]]]

get_appointment_by_id(apts, appointment_id) ==
    IF \E i \in 1..Len(apts) : apts[i].id = appointment_id
    THEN AppointmentValue(apts[CHOOSE j \in 1..Len(apts) :
                                   /\ apts[j].id = appointment_id
                                   /\ \A k \in 1..(j - 1) :
                                          apts[k].id # appointment_id])
    ELSE NoneValue

DictValue(d) == [t |-> "dict", v |-> d]

\* the positions 1..n of a list of n elements
Positions(n) == [i \in 1..n |-> i]

\* FilterOn that also filters on a key whose value is empty
FilterOn_EmptyToo(kept, apts, filters, key) ==
    LET Same(i) == apts[i][key] = filters[key].v
    IN  IF key \in DOMAIN filters THEN SelectSeq(kept, Same) ELSE kept

\* one filter of get_appointments, on the positions still kept: the list
\* comprehension runs when the key is in filters and its value is truthy
FilterOn(kept, apts, filters, key) ==
    LET Same(i) == apts[i][key] = filters[key].v
    IN  IF key \in DOMAIN filters /\ Truthy(filters[key])
        THEN SelectSeq(kept, Same)
        ELSE kept

\* the positions in the store of what get_appointments returns, in the order
\* returned.  filters is None or a dict.
Kept(apts, filters) ==
    IF IsNone(filters) \/ DOMAIN filters.v = {}
    THEN Positions(Len(apts))
    ELSE FilterOn(FilterOn(FilterOn(Positions(Len(apts)), apts, filters.v,
                                    "date"),
                           apts, filters.v, "status"),
                  apts, filters.v, "doctor_name")

Selected(apts, kept) == [k \in 1..Len(kept) |-> apts[kept[k]]]

\* get_appointments: a new list of the stored appointments that match
get_appointments(apts, filters) == Selected(apts, Kept(apts, filters))

\* Overlap with a test that only sees a new appointment starting inside an
\* existing one
Overlap_StartInside(new_start, new_end, existing_start, existing_end) ==
    existing_start <= new_start /\ new_start < existing_end

\* Overlap on closed intervals: touching ends count as overlap
Overlap_Closed(new_start, new_end, existing_start, existing_end) ==
    new_start <= existing_end /\ existing_start <= new_end

\* the overlap test on two half-open intervals of minutes
Overlap(new_start, new_end, existing_start, existing_end) ==
    new_start < existing_end /\ existing_start < new_end

\* SkipsCancelled without the skip
SkipsCancelled_Never(appointment) == FALSE

\* the appointments the conflict loop passes over
SkipsCancelled(appointment) == appointment.status = Cancelled

\* a stored appointment that parses conflicts when the intervals overlap; one
\* that does not parse (ValueError) is skipped
ExistingOverlaps(existing_start, duration, new_start, new_end) ==
    Overlap(new_start, new_end, existing_start, existing_start + duration)

ConflictsWith(existing, duration, new_start, new_end) ==
    /\ existing.ok
    /\ ExistingOverlaps(Minutes(existing), duration, new_start, new_end)

\* IsConflict that compares appointments of every date
IsConflict_AnyDate(appointment, doctor_name, date, exclude_id, new_start, new_end) ==
    /\ ~(Truthy(exclude_id) /\ StrValue(appointment.id) = exclude_id)
    /\ appointment.doctor_name = doctor_name
    /\ ~SkipsCancelled(appointment)
    /\ ConflictsWith(strptime(appointment.date \o <<" ">> \o appointment.time,
                              DateTimeFormat),
                     appointment.duration, new_start, new_end)

\* one turn of the loop of _check_time_conflicts: whether appointment is
\* appended to conflicts
IsConflict(appointment, doctor_name, date, exclude_id, new_start, new_end) ==
    /\ ~(Truthy(exclude_id) /\ StrValue(appointment.id) = exclude_id)
    /\ appointment.doctor_name = doctor_name
    /\ appointment.date = date
    /\ ~SkipsCancelled(appointment)
    /\ ConflictsWith(strptime(appointment.date \o <<" ">> \o appointment.time,
                              DateTimeFormat),
                     appointment.duration, new_start, new_end)

\* ConflictsIn that stops at the first conflict
ConflictsIn_FirstOnly(apts, doctor_name, date, exclude_id, new_start, new_end) ==
    LET Conflicts(appointment) ==
            IsConflict(appointment, doctor_name, date, exclude_id,
                       new_start, new_end)
        found == SelectSeq(apts, Conflicts)
    IN  IF found = <<>> THEN found ELSE <<found[1]>>

\* the loop of _check_time_conflicts for the interval [new_start, new_end)
ConflictsIn(apts, doctor_name, date, exclude_id, new_start, new_end) ==
    LET Conflicts(appointment) ==
            IsConflict(appointment, doctor_name, date, exclude_id,
                       new_start, new_end)
    IN  SelectSeq(apts, Conflicts)

NewInterval(apts, doctor_name, date, duration, exclude_id, new_start) ==
    ConflictsIn(apts, doctor_name, date, exclude_id, new_start,
                new_start + duration)

ConflictsOf(apts, doctor_name, date, duration, exclude_id, new) ==
    IF ~new.ok THEN <<>>
    ELSE NewInterval(apts, doctor_name, date, duration, exclude_id,
                     Minutes(new))

\* _check_time_conflicts: the stored appointments that conflict, in store
\* order.  exclude_id is None or a str.
check_time_conflicts(apts, doctor_name, date, time, duration, exclude_id) ==
    ConflictsOf(apts, doctor_name, date, duration, exclude_id,
                strptime(date \o <<" ">> \o time, DateTimeFormat))

\* the day of datetime.max, 9999-12-31
LastDay == Ordinal(9999, 12, 31)

\* new_start + timedelta(minutes=duration) raises OverflowError, which the
\* except ValueError of _check_time_conflicts does not catch: the sum is
\* on a day after the last
EndOverflows(date, time, duration, new) ==
    /\ new.ok
    /\ Ordinal(new.year, new.month, new.day)
           + ((new.hour * 60 + new.minute + duration) \div 1440) > LastDay

NewEndOverflows(payload) ==
    EndOverflows(payload.date.v, payload.time.v, payload.duration.v,
                 strptime(payload.date.v \o <<" ">> \o payload.time.v,
                          DateTimeFormat))

\* an exception that leaves the method
Raised(exception) == [t |-> "raise", v |-> exception]

\* f"apt_{uuid.uuid4().hex[:8]}": the prefix, then the eight hex digits drawn
IdPrefix == <<"a", "p", "t", "_">>

FormatId(hex) == IdPrefix \o hex

\* The id loop of create_appointment over the successive random draws: the
\* id of the first draw that no stored appointment has (done), and how many
\* draws were used.  done is FALSE while every draw so far collides.
RECURSIVE IdLoop(_, _, _)
IdLoop(apts, draws, used) ==
    IF draws = <<>>
    THEN [done |-> FALSE, new_id |-> <<>>, used |-> used]
    ELSE IF ~IsNone(get_appointment_by_id(apts, FormatId(Head(draws))))
         THEN IdLoop(apts, Tail(draws), used + 1)
         ELSE [done |-> TRUE, new_id |-> FormatId(Head(draws)),
               used |-> used + 1]

\* generate_id without the loop: the first draw is taken as it is
generate_id_NoRetry(apts, draws) == FormatId(Head(draws))

generate_id(apts, draws) == IdLoop(apts, draws, 0).new_id

\* PayloadStatus that takes the default for an empty status too
PayloadStatus_DefaultsEmpty(payload) ==
    IF "status" \in DOMAIN payload /\ Truthy(payload.status)
    THEN payload.status
    ELSE StrValue(Scheduled)

\* PayloadStatus that ignores the status of the payload
PayloadStatus_AlwaysDefault(payload) == StrValue(Scheduled)

\* payload.get('status', 'Scheduled')
PayloadStatus(payload) ==
    IF "status" \in DOMAIN payload THEN payload.status
    ELSE StrValue(Scheduled)

\* PayloadConflicts that looks for the provider name as it was sent
PayloadConflicts_Unstripped(apts, payload) ==
    check_time_conflicts(apts, payload.doctor_name.v, payload.date.v,
                         payload.time.v, payload.duration.v, NoneValue)

PayloadConflicts(apts, payload) ==
    check_time_conflicts(apts, strip(payload.doctor_name.v), payload.date.v,
                         payload.time.v, payload.duration.v, NoneValue)

\* NewAppointment that stores the names as they were sent
NewAppointment_Unstripped(new_id, payload) ==
    [id |-> new_id,
     patient_name |-> payload.patient_name.v,
     date |-> payload.date.v,
     time |-> payload.time.v,
     duration |-> payload.duration.v,
     doctor_name |-> payload.doctor_name.v,
     status |-> PayloadStatus(payload).v,
     mode |-> payload.mode.v]

NewAppointment(new_id, payload) ==
    [id |-> new_id,
     patient_name |-> strip(payload.patient_name.v),
     date |-> payload.date.v,
     time |-> payload.time.v,
     duration |-> payload.duration.v,
     doctor_name |-> strip(payload.doctor_name.v),
     status |-> PayloadStatus(payload).v,
     mode |-> payload.mode.v]

ValidationError(errors) ==
    create_error_response("VALIDATION_ERROR", <<"Invalid appointment data">>,
                          [validation_errors |-> errors])

StatusError(status) ==
    create_error_response("VALIDATION_ERROR",
                          <<"Invalid status value: ", status>>,
                          [valid_statuses |-> valid_statuses])

ConflictDetail(conflict) ==
    [id |-> conflict.id, patient_name |-> conflict.patient_name,
     time |-> conflict.time, duration |-> conflict.duration]

ConflictError(payload, conflicts) ==
    create_error_response(
        "CONFLICT_ERROR",
        <<"Time conflict detected for Dr. ", payload.doctor_name.v, " on ",
          payload.date.v>>,
        [conflicting_appointments |->
             [i \in 1..Len(conflicts) |-> ConflictDetail(conflicts[i])],
         requested_time |-> payload.time,
         requested_duration |-> payload.duration])

NotFoundError(message, appointment_id) ==
    create_error_response("NOT_FOUND", message,
                          [appointment_id |-> appointment_id])

\* Stored that puts the new appointment in front of the list
Stored_InFront(apts, new_appointment) ==
    [appointments |-> <<new_appointment>> \o apts,
     ret |-> AppointmentValue(new_appointment)]

\* steps 5 and 6 of create_appointment: the appointment is appended and
\* returned
Stored(apts, new_appointment) ==
    [appointments |-> Append(apts, new_appointment),
     ret |-> AppointmentValue(new_appointment)]

\* CreateChecked that appends before it looks at the conflicts
CreateChecked_StoresAnyway(apts, payload, new_id, conflicts) ==
    IF conflicts # <<>>
    THEN [appointments |-> Append(apts, NewAppointment(new_id, payload)),
          ret |-> ConflictError(payload, conflicts)]
    ELSE Stored(apts, NewAppointment(new_id, payload))

\* step 4 of create_appointment, given the conflicts found
CreateChecked(apts, payload, new_id, conflicts) ==
    IF conflicts # <<>>
    THEN [appointments |-> apts, ret |-> ConflictError(payload, conflicts)]
    ELSE Stored(apts, NewAppointment(new_id, payload))

\* CreateValidated that looks for conflicts before it checks the status
CreateValidated_ConflictsFirst(apts, payload, draws, validation) ==
    IF ~validation.is_valid
    THEN [appointments |-> apts, ret |-> ValidationError(validation.errors)]
    ELSE IF PayloadConflicts(apts, payload) # <<>>
    THEN [appointments |-> apts,
          ret |-> ConflictError(payload, PayloadConflicts(apts, payload))]
    ELSE IF ~validate_status_value(PayloadStatus(payload))
    THEN [appointments |-> apts, ret |-> StatusError(PayloadStatus(payload))]
    ELSE Stored(apts, NewAppointment(generate_id(apts, draws), payload))

\* CreateValidated that appends before it checks the status
CreateValidated_StoresFirst(apts, payload, draws, validation) ==
    IF ~validation.is_valid
    THEN [appointments |-> apts, ret |-> ValidationError(validation.errors)]
    ELSE IF ~validate_status_value(PayloadStatus(payload))
    THEN [appointments |->
              Append(apts, NewAppointment(generate_id(apts, draws), payload)),
          ret |-> StatusError(PayloadStatus(payload))]
    ELSE CreateChecked(apts, payload, generate_id(apts, draws),
                       PayloadConflicts(apts, payload))

\* steps 1 to 3 of create_appointment, given what the validator returned
CreateValidated(apts, payload, draws, validation) ==
    IF ~validation.is_valid
    THEN [appointments |-> apts, ret |-> ValidationError(validation.errors)]
    ELSE IF ~validate_status_value(PayloadStatus(payload))
    THEN [appointments |-> apts, ret |-> StatusError(PayloadStatus(payload))]
    ELSE IF NewEndOverflows(payload)
    THEN [appointments |-> apts, ret |-> Raised("OverflowError")]
    ELSE CreateChecked(apts, payload, generate_id(apts, draws),
                       PayloadConflicts(apts, payload))

\* create_appointment: the store afterwards and the value returned.  draws
\* are the random hex strings uuid4 yields, in order.
create_appointment(apts, payload, draws) ==
    CreateValidated(apts, payload, draws, validate_appointment_data(payload))

\* the copy of apt that update_appointment_status builds
WithStatus(apt, new_status) ==
    [id |-> apt.id, patient_name |-> apt.patient_name, date |-> apt.date,
     time |-> apt.time, duration |-> apt.duration,
     doctor_name |-> apt.doctor_name, status |-> new_status,
     mode |-> apt.mode]

\* the index of the first appointment with this id
IndexOf(apts, appointment_id) ==
    CHOOSE j \in 1..Len(apts) :
        /\ apts[j].id = appointment_id
        /\ \A k \in 1..(j - 1) : apts[k].id # appointment_id

\* Replaced that removes the appointment and appends its copy
Replaced_MovesToEnd(apts, i, status) ==
    [appointments |->
         Append([k \in 1..(Len(apts) - 1) |->
                     IF k < i THEN apts[k] ELSE apts[k + 1]],
                WithStatus(apts[i], status)),
     ret |-> AppointmentValue(WithStatus(apts[i], status))]

\* step 3 of update_appointment_status: the appointment at index i is
\* replaced by its copy
Replaced(apts, i, status) ==
    [appointments |-> [apts EXCEPT ![i] = WithStatus(apts[i], status)],
     ret |-> AppointmentValue(WithStatus(apts[i], status))]

\* update_appointment_status that replaces the status before it validates it
update_appointment_status_StoresFirst(apts, appointment_id, new_status) ==
    IF IsNone(get_appointment_by_id(apts, appointment_id))
    THEN [appointments |-> apts,
          ret |-> NotFoundError(<<"Appointment with ID ", appointment_id,
                                  " not found">>, appointment_id)]
    ELSE IF ~validate_status_value(new_status)
    THEN [appointments |->
              Replaced(apts, IndexOf(apts, appointment_id),
                       new_status.v).appointments,
          ret |-> StatusError(new_status)]
    ELSE Replaced(apts, IndexOf(apts, appointment_id), new_status.v)

\* update_appointment_status that looks up the id before it validates
update_appointment_status_LookupFirst(apts, appointment_id, new_status) ==
    IF IsNone(get_appointment_by_id(apts, appointment_id))
    THEN [appointments |-> apts,
          ret |-> NotFoundError(<<"Appointment with ID ", appointment_id,
                                  " not found">>, appointment_id)]
    ELSE IF ~validate_status_value(new_status)
    THEN [appointments |-> apts, ret |-> StatusError(new_status)]
    ELSE Replaced(apts, IndexOf(apts, appointment_id), new_status.v)

\* update_appointment_status that runs the conflict check of create for the
\* appointment it is about to revive
update_appointment_status_ChecksConflicts(apts, appointment_id, new_status) ==
    IF ~validate_status_value(new_status)
    THEN [appointments |-> apts, ret |-> StatusError(new_status)]
    ELSE IF IsNone(get_appointment_by_id(apts, appointment_id))
    THEN [appointments |-> apts,
          ret |-> NotFoundError(<<"Appointment with ID ", appointment_id,
                                  " not found">>, appointment_id)]
    ELSE IF /\ new_status.v # Cancelled
            /\ check_time_conflicts(
                   apts, apts[IndexOf(apts, appointment_id)].doctor_name,
                   apts[IndexOf(apts, appointment_id)].date,
                   apts[IndexOf(apts, appointment_id)].time,
                   apts[IndexOf(apts, appointment_id)].duration,
                   StrValue(appointment_id)) # <<>>
    THEN [appointments |-> apts,
          ret |-> create_error_response("CONFLICT_ERROR", <<"conflict">>,
                                        [appointment_id |-> appointment_id])]
    ELSE Replaced(apts, IndexOf(apts, appointment_id), new_status.v)

update_appointment_status(apts, appointment_id, new_status) ==
    IF ~validate_status_value(new_status)
    THEN [appointments |-> apts, ret |-> StatusError(new_status)]
    ELSE IF IsNone(get_appointment_by_id(apts, appointment_id))
    THEN [appointments |-> apts,
          ret |-> NotFoundError(<<"Appointment with ID ", appointment_id,
                                  " not found">>, appointment_id)]
    ELSE Replaced(apts, IndexOf(apts, appointment_id), new_status.v)

\* WithoutId that drops the first appointment of the list
WithoutId_Head(apts, appointment_id) == Tail(apts)

\* the list delete_appointment rebuilds
WithoutId(apts, appointment_id) ==
    LET Keep(apt) == apt.id # appointment_id
    IN  SelectSeq(apts, Keep)

\* step 2 of delete_appointment: the rebuilt list replaces the store
Rebuilt(initial_count, rebuilt) ==
    [appointments |-> rebuilt,
     ret |-> BoolValue(initial_count - Len(rebuilt) = 1)]

\* delete_appointment as a soft delete: the record stays, Cancelled
delete_appointment_SoftDelete(apts, appointment_id) ==
    IF IsNone(get_appointment_by_id(apts, appointment_id))
    THEN [appointments |-> apts, ret |-> BoolValue(FALSE)]
    ELSE [appointments |->
              [apts EXCEPT ![IndexOf(apts, appointment_id)].status = Cancelled],
          ret |-> BoolValue(TRUE)]

\* delete_appointment that reports success and keeps the record
delete_appointment_KeepsRecord(apts, appointment_id) ==
    IF IsNone(get_appointment_by_id(apts, appointment_id))
    THEN [appointments |-> apts, ret |-> BoolValue(FALSE)]
    ELSE [appointments |-> apts, ret |-> BoolValue(TRUE)]

\* delete_appointment that reports an absent id as deleted
delete_appointment_AbsentIsSuccess(apts, appointment_id) ==
    IF IsNone(get_appointment_by_id(apts, appointment_id))
    THEN [appointments |-> apts, ret |-> BoolValue(TRUE)]
    ELSE Rebuilt(Len(apts), WithoutId(apts, appointment_id))

delete_appointment(apts, appointment_id) ==
    IF IsNone(get_appointment_by_id(apts, appointment_id))
    THEN [appointments |-> apts, ret |-> BoolValue(FALSE)]
    ELSE Rebuilt(Len(apts), WithoutId(apts, appointment_id))


(***************************************************************************)
(* Objects.  An Appointment is an object; self.appointments and the lists  *)
(* get_appointments returns hold references to objects.  mem.heap[r] is    *)
(* the value of the object at address r and mem.refs the addresses the     *)
(* store holds, in order.                                                  *)
(***************************************************************************)
\* create_appointment: Appointment(...) is built and appended
Allocated(mem, new_appointment) ==
    [heap |-> Append(mem.heap, new_appointment),
     refs |-> Append(mem.refs, Len(mem.heap) + 1)]

\* Written that assigns the status to the stored object instead
Written_InPlace(mem, i, updated_appointment) ==
    [heap |-> [mem.heap EXCEPT ![mem.refs[i]] = updated_appointment],
     refs |-> mem.refs]

\* update_appointment_status: Appointment(...) is built and takes the place
\* of the object at index i
Written(mem, i, updated_appointment) ==
    [heap |-> Append(mem.heap, updated_appointment),
     refs |-> [mem.refs EXCEPT ![i] = Len(mem.heap) + 1]]

\* delete_appointment: the list comprehension keeps the objects with
\* another id
Comprehended(mem, appointment_id) ==
    LET Keep(r) == mem.heap[r].id # appointment_id
    IN  [heap |-> mem.heap, refs |-> SelectSeq(mem.refs, Keep)]

(***************************************************************************)
(* The draws and the arguments of the calls.                               *)
(***************************************************************************)
\* what uuid4().hex[:8] can yield
HexDraws == {<<"0", "0", "0", "0", "0", "0", "0", "a">>, <<"0", "0", "0", "0", "0", "0", "0", "b">>}

\* the draws of one create call: the first, then one per retry
DrawSeqs ==
    UNION {[1..n -> HexDraws] : n \in 0..(MaxRetries + 1)}

\* ids the status updates and deletions name: a seed appointment, the ids
\* create can generate, and an id no appointment has
TargetIds ==
    {<<"a", "p", "t", "_", "0", "0", "6">>, <<"a", "p", "t", "_", "9", "9", "9">>}
    \cup {FormatId(hex) : hex \in HexDraws}

NewStatuses == {StrValue(Confirmed), StrValue(Cancelled), StrValue(<<"P", "e", "n", "d", "i", "n", "g">>)}

(***************************************************************************)
(* The service, one call at a time.                                        *)
(***************************************************************************)
Workers == {1, 2}

Init ==
    /\ appointments = mock_appointments
    /\ memory = [heap |-> mock_appointments,
                 refs |-> Positions(Len(mock_appointments))]
    /\ listed = [refs |-> <<>>, values |-> <<>>]
    /\ before = mock_appointments
    /\ call = [op |-> "none"]
    /\ result = NoneValue
    /\ issued = <<>>
    /\ deleted = <<>>
    /\ calls = 0
    /\ pc = [w \in Workers |-> "idle"]
    /\ req = [w \in Workers |-> NoneValue]
    /\ local = [w \in Workers |-> NoneValue]
    /\ response = [w \in Workers |-> [status |-> 0, body |-> NoneValue]]

\* The draws a create call uses when it reaches the id loop: draws that end
\* the loop with the last of them.
LoopEnds(loop, draws) == loop.done /\ loop.used = Len(draws)

LoopDraws(apts) ==
    {draws \in DrawSeqs : LoopEnds(IdLoop(apts, draws, 0), draws)}

\* The validator comes before the id loop: a payload it rejects uses no draw.
ValidatedPayloads ==
    {payload \in Payloads : validate_appointment_data(payload).is_valid}

\* a call returns: the store and the result are what the method left
Returns(out) ==
    /\ before' = appointments
    /\ appointments' = out.appointments
    /\ result' = out.ret
    /\ calls' = calls + 1
    /\ UNCHANGED <<pc, req, local, response>>

CreateCall(payload, draws) ==
    /\ call' = [op |-> "create_appointment", payload |-> payload,
                draws |-> draws]
    /\ Returns(create_appointment(appointments, payload, draws))
    /\ issued' = IF result'.t = "Appointment"
                 THEN Append(issued, result'.v.id)
                 ELSE issued
    /\ memory' = IF result'.t = "Appointment"
                 THEN Allocated(memory, result'.v)
                 ELSE memory
    /\ UNCHANGED <<deleted, listed>>

UpdateStatusCall(appointment_id, new_status) ==
    /\ call' = [op |-> "update_appointment_status",
                appointment_id |-> appointment_id, new_status |-> new_status]
    /\ Returns(update_appointment_status(appointments, appointment_id,
                                         new_status))
    /\ memory' = IF result'.t = "Appointment"
                 THEN Written(memory, IndexOf(appointments, appointment_id),
                              result'.v)
                 ELSE memory
    /\ UNCHANGED <<issued, deleted, listed>>

DeleteCall(appointment_id) ==
    /\ call' = [op |-> "delete_appointment", appointment_id |-> appointment_id]
    /\ Returns(delete_appointment(appointments, appointment_id))
    /\ memory' = IF IsNone(get_appointment_by_id(appointments, appointment_id))
                 THEN memory
                 ELSE Comprehended(memory, appointment_id)
    /\ deleted' = IF result'.v THEN Append(deleted, appointment_id)
                  ELSE deleted
    /\ UNCHANGED <<issued, listed>>

\* get_appointments: the caller keeps the list it is given
GetAppointmentsCall(filters) ==
    /\ call' = [op |-> "get_appointments", filters |-> filters]
    /\ Returns([appointments |-> appointments,
                ret |-> [t |-> "list",
                         v |-> get_appointments(appointments, filters)]])
    /\ listed' = [refs |-> Selected(memory.refs, Kept(appointments, filters)),
                  values |-> result'.v]
    /\ UNCHANGED <<issued, deleted, memory>>

\* the session goes on for MaxCalls calls
More == calls < MaxCalls

Create(payload, draws) == More /\ CreateCall(payload, draws)

UpdateStatus(appointment_id, new_status) ==
    More /\ UpdateStatusCall(appointment_id, new_status)

Delete(appointment_id) == More /\ DeleteCall(appointment_id)

Next ==
    \/ \E draws \in LoopDraws(appointments) :
           \E payload \in ValidatedPayloads : Create(payload, draws)
    \/ \E payload \in Payloads \ ValidatedPayloads : Create(payload, <<>>)
    \/ \E appointment_id \in TargetIds, new_status \in NewStatuses :
           UpdateStatus(appointment_id, new_status)
    \/ \E appointment_id \in TargetIds : Delete(appointment_id)

Spec == Init /\ [][Next]_vars

(***************************************************************************)
(* A longer session of calls over fewer inputs, reads included: the slot   *)
(* of the cancelled apt_006 is booked, the ids named are apt_006 and the   *)
(* id create generates, and uuid4 yields the same first draw every time.   *)
(***************************************************************************)
MaxSession == 4

FirstDraw == <<"0", "0", "0", "0", "0", "0", "0", "a">>

SessionPayloads == {Slot(Dec26, <<"1", "5", ":", "4", "5">>, 30)}

SessionDraws(apts) == {draws \in LoopDraws(apts) : draws[1] = FirstDraw}

SessionIds == {<<"a", "p", "t", "_", "0", "0", "6">>, FormatId(FirstDraw)}

SessionStatuses == {StrValue(Confirmed), StrValue(Cancelled)}

\* filters of get_appointments other than None: one field, three fields of
\* which one is empty
ListFilters ==
    { DictValue([status |-> StrValue(Cancelled)]),
      DictValue([date |-> StrValue(Dec26),
                 doctor_name |-> StrValue(DrSarahJohnson),
                 status |-> StrValue(<<>>)]) }

MoreSession == calls < MaxSession

SessionCreate(payload, draws) == MoreSession /\ CreateCall(payload, draws)

SessionUpdateStatus(appointment_id, new_status) ==
    MoreSession /\ UpdateStatusCall(appointment_id, new_status)

SessionDelete(appointment_id) == MoreSession /\ DeleteCall(appointment_id)

SessionGetAppointments(filters) == MoreSession /\ GetAppointmentsCall(filters)

NextSession ==
    \/ \E payload \in SessionPayloads :
           \E draws \in SessionDraws(appointments) :
               SessionCreate(payload, draws)
    \/ \E appointment_id \in SessionIds, new_status \in SessionStatuses :
           SessionUpdateStatus(appointment_id, new_status)
    \/ \E appointment_id \in SessionIds : SessionDelete(appointment_id)
    \/ SessionGetAppointments(NoneValue)
    \/ \E filters \in ListFilters : SessionGetAppointments(filters)

SpecSession == Init /\ [][NextSession]_vars

(***************************************************************************)
(* One payload, built field by field, given to the validator and to        *)
(* create_appointment: what each of them answers, and what is stored.      *)
(***************************************************************************)
InitFields ==
    /\ appointments = mock_appointments
    /\ memory = [heap |-> mock_appointments,
                 refs |-> Positions(Len(mock_appointments))]
    /\ listed = [refs |-> <<>>, values |-> <<>>]
    /\ before = mock_appointments
    /\ \E c \in FieldChoices : call = [op |-> "none", payload |-> PayloadOf(c)]
    /\ result = NoneValue
    /\ issued = <<>>
    /\ deleted = <<>>
    /\ calls = 0
    /\ pc = [w \in Workers |-> "idle"]
    /\ req = [w \in Workers |-> NoneValue]
    /\ local = [w \in Workers |-> NoneValue]
    /\ response = [w \in Workers |-> [status |-> 0, body |-> NoneValue]]

\* validate_appointment_data(data) called on its own
ValidateCall(data) ==
    /\ call' = [op |-> "validate_appointment_data", payload |-> data]
    /\ Returns([appointments |-> appointments,
                ret |-> [t |-> "tuple", v |-> validate_appointment_data(data)]])
    /\ UNCHANGED <<issued, deleted, listed, memory>>

FieldsValidate == More /\ ValidateCall(call.payload)

\* the validator accepts the payload: create_appointment draws an id
FieldsCreate(draws) ==
    /\ More
    /\ validate_appointment_data(call.payload).is_valid
    /\ CreateCall(call.payload, draws)

FieldsCreateInvalid ==
    /\ More
    /\ ~validate_appointment_data(call.payload).is_valid
    /\ CreateCall(call.payload, <<>>)

NextFields ==
    \/ FieldsValidate
    \/ \E draws \in LoopDraws(appointments) : FieldsCreate(draws)
    \/ FieldsCreateInvalid

SpecFields == InitFields /\ [][NextFields]_vars

(***************************************************************************)
(* The HTTP layer.  app.run starts Flask's development server, which       *)
(* serves every request in a thread of its own, and the handlers call the  *)
(* one AppointmentService without a lock.  A handler is therefore a        *)
(* sequence of steps, one per read or write of self.appointments, between  *)
(* which the other thread may run.                                         *)
(***************************************************************************)
\* request bodies of POST /api/appointments: two free slots of one provider
\* and date that overlap each other, a free slot next to apt_001, a slot
\* that overlaps apt_001, and a body the validator rejects
HttpPayloads ==
    { Slot(Dec26, <<"1", "5", ":", "4", "5">>, 30),
      With(Slot(Dec26, <<"1", "6", ":", "0", "0">>, 30), "status", StrValue(Confirmed)),
      Slot(Dec27, <<"0", "9", ":", "3", "0">>, 30),
      Slot(Dec27, <<"0", "8", ":", "4", "5">>, 30),
      With(Slot(Dec27, <<"0", "9", ":", "0", "0">>, 30), "duration", IntValue(0)) }

HttpValidated ==
    {payload \in HttpPayloads : validate_appointment_data(payload).is_valid}

\* the handler returns: jsonify(body), status
Responds(w, status, body) ==
    /\ response' = [response EXCEPT ![w] = [status |-> status, body |-> body]]
    /\ pc' = [pc EXCEPT ![w] = "idle"]

\* the handler goes on to its next step with these local variables
Moves(w, to, locals) ==
    /\ pc' = [pc EXCEPT ![w] = to]
    /\ local' = [local EXCEPT ![w] = locals]
    /\ UNCHANGED response

\* a request arrives at an idle worker thread
Accepts(w, request) ==
    /\ pc[w] = "idle"
    /\ calls < MaxCalls
    /\ calls' = calls + 1
    /\ req' = [req EXCEPT ![w] = request]

\* steps 1 to 3 of create_appointment: the error returned, or the new id
CreateEntry(apts, payload, draws, validation) ==
    IF ~validation.is_valid
    THEN ValidationError(validation.errors)
    ELSE IF ~validate_status_value(PayloadStatus(payload))
    THEN StatusError(PayloadStatus(payload))
    ELSE StrValue(generate_id(apts, draws))

HttpCreateEntered(w, entry) ==
    IF entry.t = "dict"
    THEN Responds(w, 400, entry.v) /\ UNCHANGED local
    ELSE Moves(w, "check", [new_id |-> entry.v])

\* POST /api/appointments, up to the conflict check
HttpCreate(w, payload, draws) ==
    /\ Accepts(w, [method |-> "POST", payload |-> payload, draws |-> draws])
    /\ HttpCreateEntered(w, CreateEntry(appointments, payload, draws,
                                        validate_appointment_data(payload)))
    /\ UNCHANGED <<appointments, memory, listed, before, call, result, issued,
                   deleted>>

\* POST /api/appointments with an empty body
HttpCreateNoBody(w) ==
    /\ Accepts(w, [method |-> "POST", payload |-> <<>>, draws |-> <<>>])
    /\ Responds(w, 400,
                [success |-> FALSE,
                 error |-> [code |-> "VALIDATION_ERROR",
                            message |-> <<"Request body is required">>]])
    /\ UNCHANGED <<appointments, memory, listed, before, call, result, issued,
                   deleted, local>>

HttpChecked(w, payload, conflicts) ==
    IF conflicts # <<>>
    THEN Responds(w, 400, ConflictError(payload, conflicts).v)
         /\ UNCHANGED local
    ELSE Moves(w, "append", local[w])

\* step 4 of create_appointment: the conflict check reads the store
HttpCreateCheck(w) ==
    /\ pc[w] = "check"
    /\ HttpChecked(w, req[w].payload,
                   PayloadConflicts(appointments, req[w].payload))
    /\ UNCHANGED <<appointments, memory, listed, before, call, result, issued,
                   deleted, calls, req>>

HttpStored(w, out) ==
    /\ appointments' = out.appointments
    /\ memory' = Allocated(memory, out.ret.v)
    /\ issued' = Append(issued, out.ret.v.id)
    /\ Responds(w, 201, [success |-> TRUE, data |-> out.ret.v])

\* steps 5 and 6 of create_appointment and the 201 of the handler
HttpCreateAppend(w) ==
    /\ pc[w] = "append"
    /\ HttpStored(w, Stored(appointments,
                            NewAppointment(local[w].new_id, req[w].payload)))
    /\ UNCHANGED <<listed, before, call, result, deleted, calls, req, local>>

DeleteResponse(success) ==
    [success |-> success,
     message |-> IF success THEN <<"Appointment deleted successfully">>
                 ELSE <<"Appointment not found">>]

\* DELETE /api/appointments/<appointment_id>, the lookup of step 1
HttpDelete(w, appointment_id) ==
    /\ Accepts(w, [method |-> "DELETE", appointment_id |-> appointment_id])
    /\ IF IsNone(get_appointment_by_id(appointments, appointment_id))
       THEN Responds(w, 200, DeleteResponse(FALSE)) /\ UNCHANGED local
       ELSE Moves(w, "rebuild", NoneValue)
    /\ UNCHANGED <<appointments, memory, listed, before, call, result, issued,
                   deleted>>

\* step 2 of delete_appointment: the list comprehension reads the store
HttpDeleteRebuild(w) ==
    /\ pc[w] = "rebuild"
    /\ Moves(w, "assign",
             [initial_count |-> Len(appointments),
              rebuilt |-> WithoutId(appointments, req[w].appointment_id),
              refs |-> Comprehended(memory, req[w].appointment_id).refs])
    /\ UNCHANGED <<appointments, memory, listed, before, call, result, issued,
                   deleted, calls, req>>

HttpAssigned(w, out) ==
    /\ appointments' = out.appointments
    /\ memory' = [heap |-> memory.heap, refs |-> local[w].refs]
    /\ deleted' = IF out.ret.v THEN Append(deleted, req[w].appointment_id)
                  ELSE deleted
    /\ Responds(w, 200, DeleteResponse(out.ret.v))

\* step 2 of delete_appointment: the rebuilt list is assigned to the store
HttpDeleteAssign(w) ==
    /\ pc[w] = "assign"
    /\ HttpAssigned(w, Rebuilt(local[w].initial_count, local[w].rebuilt))
    /\ UNCHANGED <<listed, before, call, result, issued, calls, req, local>>

NextHttp ==
    \E w \in Workers :
        \/ \E draws \in LoopDraws(appointments) :
               \E payload \in HttpValidated : HttpCreate(w, payload, draws)
        \/ \E payload \in HttpPayloads \ HttpValidated :
               HttpCreate(w, payload, <<>>)
        \/ HttpCreateNoBody(w)
        \/ HttpCreateCheck(w)
        \/ HttpCreateAppend(w)
        \/ \E appointment_id \in TargetIds : HttpDelete(w, appointment_id)
        \/ HttpDeleteRebuild(w)
        \/ HttpDeleteAssign(w)

SpecHttp == Init /\ [][NextHttp]_vars

(***************************************************************************)
(* The id loop of create_appointment, one draw at a time.  One caller      *)
(* makes create and delete calls; a create that passed the validator draws *)
(* a candidate id and draws again while a stored appointment has the       *)
(* candidate, then goes on with the status check, the conflict check and   *)
(* the append.  The caller keeps running, and each value uuid4 can yield   *)
(* is drawn again and again while the loop runs.                           *)
(***************************************************************************)
Caller == CHOOSE w \in Workers : TRUE

\* the payloads of the requests, and the one for the last minute
LoopPayloads == HttpPayloads \cup {LastMinute}

\* the condition of the while loop: get_appointment_by_id(new_id) is not None
Collides(apts, hex) == ~IsNone(get_appointment_by_id(apts, FormatId(hex)))

InLoop == pc[Caller] = "loop"

\* the validator rejects the payload: create returns before the id loop
LoopCreateRefused(payload) ==
    /\ ~InLoop /\ More
    /\ ~validate_appointment_data(payload).is_valid
    /\ CreateCall(payload, <<>>)

\* the validator accepts the payload: the first candidate is drawn
LoopCreate(payload, hex) ==
    /\ ~InLoop /\ More
    /\ validate_appointment_data(payload).is_valid
    /\ call' = [op |-> "create_appointment", payload |-> payload]
    /\ pc' = [pc EXCEPT ![Caller] = "loop"]
    /\ local' = [local EXCEPT ![Caller] = [hex |-> hex, retried |-> FALSE]]
    /\ UNCHANGED <<appointments, memory, listed, before, result, issued,
                   deleted, calls, req, response>>

\* the candidate is the id of a stored appointment: another draw
LoopRetry(hex) ==
    /\ InLoop
    /\ Collides(appointments, local[Caller].hex)
    /\ local' = [local EXCEPT ![Caller] = [hex |-> hex, retried |-> TRUE]]
    /\ UNCHANGED <<appointments, memory, listed, before, call, result,
                   issued, deleted, calls, pc, req, response>>

LoopReturns(out) ==
    /\ before' = appointments
    /\ appointments' = out.appointments
    /\ result' = out.ret
    /\ calls' = calls + 1
    /\ issued' = IF out.ret.t = "Appointment"
                 THEN Append(issued, out.ret.v.id)
                 ELSE issued
    /\ memory' = IF out.ret.t = "Appointment"
                 THEN Allocated(memory, out.ret.v)
                 ELSE memory
    /\ pc' = [pc EXCEPT ![Caller] = "idle"]

\* steps 3 to 6 of create_appointment with the id the loop ended with
CreateWithId(apts, payload, new_id) ==
    IF ~validate_status_value(PayloadStatus(payload))
    THEN [appointments |-> apts, ret |-> StatusError(PayloadStatus(payload))]
    ELSE IF NewEndOverflows(payload)
    THEN [appointments |-> apts, ret |-> Raised("OverflowError")]
    ELSE CreateChecked(apts, payload, new_id, PayloadConflicts(apts, payload))

\* no stored appointment has the candidate: the loop ends and create goes
\* on to its return
LoopExit ==
    /\ InLoop
    /\ ~Collides(appointments, local[Caller].hex)
    /\ LoopReturns(CreateWithId(appointments, call.payload,
                                FormatId(local[Caller].hex)))
    /\ UNCHANGED <<listed, call, deleted, req, local, response>>

LoopDelete(appointment_id) ==
    /\ ~InLoop /\ More
    /\ DeleteCall(appointment_id)

NextLoop ==
    \/ \E payload \in LoopPayloads : LoopCreateRefused(payload)
    \/ \E payload \in LoopPayloads, hex \in HexDraws : LoopCreate(payload, hex)
    \/ \E hex \in HexDraws : LoopRetry(hex)
    \/ LoopExit
    \/ \E appointment_id \in TargetIds : LoopDelete(appointment_id)

SpecLoop ==
    /\ Init /\ [][NextLoop]_vars
    /\ WF_vars(LoopExit)
    /\ \A hex \in HexDraws : WF_vars(LoopRetry(hex))

(***************************************************************************)
(* The service, one call at a time, with requests for slots around         *)
(* midnight.                                                               *)
(***************************************************************************)
NextNight ==
    \/ \E draws \in LoopDraws(appointments), payload \in NightPayloads :
           Create(payload, draws)
    \/ \E appointment_id \in TargetIds, new_status \in NewStatuses :
           UpdateStatus(appointment_id, new_status)
    \/ \E appointment_id \in TargetIds : Delete(appointment_id)

SpecNight == Init /\ [][NextNight]_vars

(***************************************************************************)
(* Vocabulary of the properties.                                           *)
(***************************************************************************)
IsError(r, code) == r.t = "dict" /\ ~r.v.success /\ r.v.error.code = code

IsCreate(c) == c.op = "create_appointment"

\* the half-open interval [Start, End) of a stored appointment, in minutes
Start(a) == Minutes(strptime(a.date \o <<" ">> \o a.time, DateTimeFormat))
End(a) == Start(a) + a.duration

\* the same for the slot a payload asks for
PayloadStart(p) ==
    Minutes(strptime(p.date.v \o <<" ">> \o p.time.v, DateTimeFormat))
PayloadEnd(p) == PayloadStart(p) + p.duration.v

\* a payload that create does not answer with VALIDATION_ERROR
PassesValidation(p) ==
    /\ validate_appointment_data(p).is_valid
    /\ validate_status_value(PayloadStatus(p))

\* stored appointment a is of the provider and date payload p asks for
SameProviderDate(a, p) ==
    a.doctor_name = strip(p.doctor_name.v) /\ a.date = p.date.v

OverlapsPayload(a, p) ==
    Start(a) < PayloadEnd(p) /\ PayloadStart(p) < End(a)

\* two stored appointments that double-book a provider
DoubleBooked(a, b) ==
    /\ a.status # Cancelled /\ b.status # Cancelled
    /\ a.doctor_name = b.doctor_name /\ a.date = b.date
    /\ Start(a) < End(b) /\ Start(b) < End(a)

NoDoubleBookingIn(apts) ==
    \A i \in 1..Len(apts) :
        \A j \in (i + 1)..Len(apts) : ~DoubleBooked(apts[i], apts[j])

(***************************************************************************)
(* C1.  As stated: in every reachable state no two appointments that are   *)
(* not Cancelled and have the same provider name and date have overlapping *)
(* intervals [start, start + duration).  update_status does not check for  *)
(* conflicts, so confirming a Cancelled appointment whose slot was taken   *)
(* since breaks it.                                                        *)
(***************************************************************************)
C1_NoDoubleBooking == NoDoubleBookingIn(appointments)

\* the last call moved a stored appointment away from Cancelled
Revived ==
    /\ call.op = "update_appointment_status"
    /\ \E i \in 1..Len(before) :
           /\ before[i].status = Cancelled
           /\ appointments[i].status # Cancelled

\* C1 as amended: every create, every delete and every update_status that
\* does not move an appointment away from Cancelled keeps the store free of
\* double bookings.
C1_PreservedUnlessRevived ==
    (NoDoubleBookingIn(before) /\ ~Revived) => NoDoubleBookingIn(appointments)

\* two creates were accepted and a provider now has three appointments that
\* are not Cancelled on one date, none overlapping
C1_Witness ==
    /\ IsCreate(call) /\ result.t = "Appointment"
    /\ NoDoubleBookingIn(appointments)
    /\ Cardinality({i \in 1..Len(appointments) :
                       /\ appointments[i].doctor_name = result.v.doctor_name
                       /\ appointments[i].date = result.v.date
                       /\ appointments[i].status # Cancelled}) >= 3

(***************************************************************************)
(* C2.  When exactly one appointment X is stored for the provider and date *)
(* of a valid payload Y, and X is not Cancelled, create(Y) returns         *)
(* CONFLICT_ERROR if and only if S1 < S2 + L2 and S2 < S1 + L1; so an      *)
(* appointment that starts when X ends, or ends when X starts, is          *)
(* accepted.                                                               *)
(***************************************************************************)
C2_ConflictIffOverlap ==
    \A i \in 1..Len(before) :
        ( /\ IsCreate(call)
          /\ PassesValidation(call.payload)
          /\ before[i].status # Cancelled
          /\ \A j \in 1..Len(before) :
                 SameProviderDate(before[j], call.payload) <=> j = i )
        => ( IsError(result, "CONFLICT_ERROR")
                 <=> OverlapsPayload(before[i], call.payload) )

\* a create was accepted for a slot that starts exactly when the only other
\* appointment of that provider and date ends
C2_Witness ==
    /\ IsCreate(call) /\ result.t = "Appointment"
    /\ \E i \in 1..Len(appointments) :
           /\ appointments[i].id # result.v.id
           /\ appointments[i].status # Cancelled
           /\ appointments[i].doctor_name = result.v.doctor_name
           /\ appointments[i].date = result.v.date
           /\ End(appointments[i]) = Start(result.v)
           /\ \A j \in 1..Len(appointments) :
                  ( /\ appointments[j].doctor_name = result.v.doctor_name
                    /\ appointments[j].date = result.v.date )
                  => (j = i \/ appointments[j].id = result.v.id)

(***************************************************************************)
(* C3.  A Cancelled stored appointment never causes a rejection: a create  *)
(* with a valid payload is not answered with CONFLICT_ERROR when every     *)
(* stored appointment of its provider and date that overlaps its interval  *)
(* is Cancelled, and no appointment listed in a CONFLICT_ERROR is          *)
(* Cancelled.                                                              *)
(***************************************************************************)
C3_CancelledExempt ==
    IsCreate(call) =>
        /\ ( /\ PassesValidation(call.payload)
             /\ \A i \in 1..Len(before) :
                    ( /\ SameProviderDate(before[i], call.payload)
                      /\ OverlapsPayload(before[i], call.payload) )
                    => before[i].status = Cancelled )
           => ~IsError(result, "CONFLICT_ERROR")
        /\ IsError(result, "CONFLICT_ERROR") =>
               \A k \in 1..Len(result.v.error.details
                                  .conflicting_appointments) :
                   \A i \in 1..Len(before) :
                       before[i].id =
                           result.v.error.details
                               .conflicting_appointments[k].id
                       => before[i].status # Cancelled

\* a create was rejected for a slot that overlaps a Cancelled appointment of
\* the same provider and date as well as the one that is listed
C3_Witness ==
    /\ IsCreate(call) /\ IsError(result, "CONFLICT_ERROR")
    /\ \E i \in 1..Len(before) :
           /\ before[i].status = Cancelled
           /\ SameProviderDate(before[i], call.payload)
           /\ OverlapsPayload(before[i], call.payload)

(***************************************************************************)
(* C4.  As stated: a create request whose own status is Cancelled is never *)
(* rejected with CONFLICT_ERROR.  create_appointment runs the conflict     *)
(* check whatever the status of the new appointment is.                    *)
(***************************************************************************)
C4_CancelledCreateNeverConflicts ==
    ~( /\ IsCreate(call)
       /\ "status" \in DOMAIN call.payload
       /\ call.payload.status = StrValue(Cancelled)
       /\ IsError(result, "CONFLICT_ERROR") )

(***************************************************************************)
(* C5.  As stated: two create requests for the same provider and date with *)
(* overlapping intervals, served concurrently by the HTTP layer, never     *)
(* both succeed.  Checked of two appointments that were each answered with *)
(* 201, are both stored and are not Cancelled.  The handlers take no lock, *)
(* so both requests can pass the conflict check before either appends.     *)
(***************************************************************************)
Accepted(w) ==
    /\ response[w].status = 201
    /\ \E i \in 1..Len(appointments) :
           appointments[i] = response[w].body.data

C5_ConcurrentCreatesExclusive ==
    \A v, w \in Workers :
        (v # w /\ Accepted(v) /\ Accepted(w))
            => ~DoubleBooked(response[v].body.data, response[w].body.data)

(***************************************************************************)
(* C6.  In every reachable state no two stored appointments have the same  *)
(* id.                                                                     *)
(***************************************************************************)
C6_UniqueIds ==
    \A i, j \in 1..Len(appointments) :
        i # j => appointments[i].id # appointments[j].id

\* a create drew the id of a stored appointment, drew again and was accepted
C6_Witness ==
    /\ IsCreate(call) /\ result.t = "Appointment"
    /\ Len(call.draws) >= 2
    /\ \E i \in 1..Len(before) : before[i].id = FormatId(call.draws[1])

(***************************************************************************)
(* C7.  As stated: over a whole session no two appointments returned by    *)
(* create have the same id, also when the earlier one has been deleted     *)
(* since, and every generated id starts with "apt_".  The id loop only     *)
(* looks at the appointments stored at the time of the call.               *)
(***************************************************************************)
C7_SessionUniqueIds ==
    /\ \A i, j \in 1..Len(issued) : i # j => issued[i] # issued[j]
    /\ \A i \in 1..Len(issued) :
           /\ Len(issued[i]) >= Len(IdPrefix)
           /\ SubSeq(issued[i], 1, Len(IdPrefix)) = IdPrefix

(***************************************************************************)
(* C8.  In every reachable state every stored appointment has its status   *)
(* among Confirmed, Scheduled, Upcoming, Cancelled and its mode among      *)
(* In-person, Virtual, Phone.                                              *)
(***************************************************************************)
C8_ClosedEnumerations ==
    \A i \in 1..Len(appointments) :
        /\ appointments[i].status \in
               {Confirmed, Scheduled, Upcoming, Cancelled}
        /\ appointments[i].mode \in {InPerson, Virtual, Phone}

\* update_status was asked to give a stored appointment a status outside the
\* enumeration
C8_Witness ==
    /\ call.op = "update_appointment_status"
    /\ call.new_status.v \notin {Confirmed, Scheduled, Upcoming, Cancelled}
    /\ \E i \in 1..Len(appointments) :
           appointments[i].id = call.appointment_id

(***************************************************************************)
(* C9.  Whenever create returns VALIDATION_ERROR the store is as it was    *)
(* before the call: same appointments, same values, same order.            *)
(***************************************************************************)
C9_ValidationErrorKeepsStore ==
    (IsCreate(call) /\ IsError(result, "VALIDATION_ERROR"))
        => appointments = before

\* create returned VALIDATION_ERROR from its own status check, after the
\* validator had passed the payload and an id had been generated
C9_Witness ==
    /\ IsCreate(call) /\ IsError(result, "VALIDATION_ERROR")
    /\ validate_appointment_data(call.payload).is_valid
    /\ Len(call.draws) >= 1

(***************************************************************************)
(* C10.  Whenever create returns CONFLICT_ERROR the store is as it was     *)
(* before the call.                                                        *)
(***************************************************************************)
C10_ConflictErrorKeepsStore ==
    (IsCreate(call) /\ IsError(result, "CONFLICT_ERROR"))
        => appointments = before

\* create returned CONFLICT_ERROR for a payload that passes validation
C10_Witness ==
    /\ IsCreate(call) /\ IsError(result, "CONFLICT_ERROR")
    /\ PassesValidation(call.payload)
    /\ Len(result.v.error.details.conflicting_appointments) >= 1

(***************************************************************************)
(* C11.  Whenever update_status returns VALIDATION_ERROR or NOT_FOUND the  *)
(* store is as it was before the call.                                     *)
(***************************************************************************)
IsUpdate(c) == c.op = "update_appointment_status"

C11_UpdateErrorKeepsStore ==
    ( /\ IsUpdate(call)
      /\ \/ IsError(result, "VALIDATION_ERROR")
         \/ IsError(result, "NOT_FOUND") )
    => appointments = before

\* update_status was refused a status outside the enumeration for an
\* appointment that is stored
C11_Witness ==
    /\ IsUpdate(call) /\ IsError(result, "VALIDATION_ERROR")
    /\ \E i \in 1..Len(before) : before[i].id = call.appointment_id

(***************************************************************************)
(* C12.  update_status checks the new status before it looks up the id: a  *)
(* status outside the enumeration yields VALIDATION_ERROR whether or not   *)
(* the id is stored, a status of the enumeration with an id that is not    *)
(* stored yields NOT_FOUND, and a status of the enumeration with a stored  *)
(* id succeeds.                                                            *)
(***************************************************************************)
StatusEnum == {Confirmed, Scheduled, Upcoming, Cancelled}

IsStored(apts, appointment_id) ==
    \E i \in 1..Len(apts) : apts[i].id = appointment_id

C12_StatusCheckedBeforeLookup ==
    IsUpdate(call) =>
        /\ call.new_status.v \notin StatusEnum
               => IsError(result, "VALIDATION_ERROR")
        /\ ( /\ call.new_status.v \in StatusEnum
             /\ ~IsStored(before, call.appointment_id) )
               => IsError(result, "NOT_FOUND")
        /\ ( /\ call.new_status.v \in StatusEnum
             /\ IsStored(before, call.appointment_id) )
               => result.t = "Appointment"

\* update_status was given a status outside the enumeration and an id that
\* is not stored
C12_Witness ==
    /\ IsUpdate(call)
    /\ call.new_status.v \notin StatusEnum
    /\ ~IsStored(before, call.appointment_id)
    /\ IsError(result, "VALIDATION_ERROR")

(***************************************************************************)
(* C13.  A successful update_status(id, s) leaves the store as it was but  *)
(* for the status of the record with that id, which is s: the record keeps *)
(* its other fields and its position, every other record is unchanged, the *)
(* record is what the call returns, and get_by_id(id) and list({status:    *)
(* s}) return it.                                                          *)
(***************************************************************************)
InList(list, a) == \E k \in 1..Len(list) : list[k] = a

UpdatedAt(i) ==
    /\ before[i].id = call.appointment_id
    /\ appointments = [before EXCEPT ![i].status = call.new_status.v]
    /\ result.v = appointments[i]
    /\ get_appointment_by_id(appointments, call.appointment_id)
           = AppointmentValue(appointments[i])
    /\ InList(get_appointments(appointments,
                               DictValue([status |-> call.new_status])),
              appointments[i])

C13_UpdateChangesOnlyStatus ==
    (IsUpdate(call) /\ result.t = "Appointment")
        => \E i \in 1..Len(before) : UpdatedAt(i)

\* update_status changed the status of a record that is neither first nor
\* last in the store
C13_Witness ==
    /\ IsUpdate(call) /\ result.t = "Appointment"
    /\ \E i \in 2..(Len(before) - 1) :
           /\ before[i].id = call.appointment_id
           /\ before[i].status # call.new_status.v

(***************************************************************************)
(* C14.  update_status performs no conflict detection: for a stored id     *)
(* whose status is Cancelled and a new status of the enumeration other     *)
(* than Cancelled it succeeds and returns the updated record, also when    *)
(* another appointment of the same provider and date that is not Cancelled *)
(* overlaps its interval.                                                  *)
(***************************************************************************)
RevivesCancelled ==
    /\ IsUpdate(call)
    /\ call.new_status.v \in StatusEnum \ {Cancelled}
    /\ \E i \in 1..Len(before) :
           /\ before[i].id = call.appointment_id
           /\ before[i].status = Cancelled

C14_UpdateNeverChecksConflicts ==
    RevivesCancelled =>
        /\ result.t = "Appointment"
        /\ result.v.id = call.appointment_id
        /\ result.v.status = call.new_status.v
        /\ InList(appointments, result.v)

\* a Cancelled appointment was revived although its slot had been taken
C14_Witness ==
    /\ RevivesCancelled
    /\ result.t = "Appointment"
    /\ \E j \in 1..Len(appointments) :
           /\ appointments[j].id # result.v.id
           /\ DoubleBooked(appointments[j], result.v)

(***************************************************************************)
(* C15.  Round trip: a successful create with payload P returns an         *)
(* appointment with the date, time, duration and mode of P, the patient    *)
(* and provider names of P without leading and trailing whitespace, the    *)
(* status of P or the default, and an id with the prefix that no stored    *)
(* appointment had; get_by_id on that id returns the same record, and the  *)
(* record is in list() and in list filtered by its date, its provider or   *)
(* its status.                                                             *)
(***************************************************************************)
Created == IsCreate(call) /\ result.t = "Appointment"

Listed(filters) == InList(get_appointments(appointments, filters), result.v)

C15_CreateRoundTrip ==
    Created =>
        /\ result.v.date = call.payload.date.v
        /\ result.v.time = call.payload.time.v
        /\ result.v.duration = call.payload.duration.v
        /\ result.v.mode = call.payload.mode.v
        /\ result.v.patient_name = strip(call.payload.patient_name.v)
        /\ result.v.doctor_name = strip(call.payload.doctor_name.v)
        /\ result.v.status = IF "status" \in DOMAIN call.payload
                             THEN call.payload.status.v ELSE Scheduled
        /\ SubSeq(result.v.id, 1, Len(IdPrefix)) = IdPrefix
        /\ ~IsStored(before, result.v.id)
        /\ get_appointment_by_id(appointments, result.v.id) = result
        /\ Listed(NoneValue)
        /\ Listed(DictValue([date |-> StrValue(result.v.date)]))
        /\ Listed(DictValue([doctor_name |-> StrValue(result.v.doctor_name)]))
        /\ Listed(DictValue([status |-> StrValue(result.v.status)]))

\* a create was accepted whose patient and provider names had whitespace
\* around them
C15_Witness ==
    /\ Created
    /\ call.payload.patient_name.v # result.v.patient_name
    /\ call.payload.doctor_name.v # result.v.doctor_name

(***************************************************************************)
(* C16.  A successful create whose payload has no status stores the        *)
(* appointment with status Scheduled; one whose payload has a status of    *)
(* the enumeration stores exactly that status.                             *)
(***************************************************************************)
StoredStatus(appointment_id) ==
    get_appointment_by_id(appointments, appointment_id).v.status

C16_DefaultStatus ==
    Created =>
        /\ "status" \notin DOMAIN call.payload
               => StoredStatus(result.v.id) = Scheduled
        /\ ( /\ "status" \in DOMAIN call.payload
             /\ call.payload.status.v \in StatusEnum )
               => StoredStatus(result.v.id) = call.payload.status.v

\* a create with a status other than the default was accepted
C16_Witness ==
    /\ Created
    /\ "status" \in DOMAIN call.payload
    /\ call.payload.status.v \in StatusEnum \ {Scheduled}

(***************************************************************************)
(* C17.  When create returns CONFLICT_ERROR its details list exactly the   *)
(* stored appointments that are not Cancelled, have the provider and date  *)
(* asked for and overlap the interval asked for, every one of them once,   *)
(* each with its id, patient name, time and duration, and the details      *)
(* carry the time and duration asked for.                                  *)
(***************************************************************************)
Conflicting(payload) ==
    {i \in 1..Len(before) :
        /\ before[i].status # Cancelled
        /\ SameProviderDate(before[i], payload)
        /\ OverlapsPayload(before[i], payload)}

Details == result.v.error.details

C17_ConflictDetailsComplete ==
    (IsCreate(call) /\ IsError(result, "CONFLICT_ERROR")) =>
        /\ {Details.conflicting_appointments[k] :
               k \in 1..Len(Details.conflicting_appointments)}
           = {[id |-> before[i].id, patient_name |-> before[i].patient_name,
               time |-> before[i].time, duration |-> before[i].duration] :
                  i \in Conflicting(call.payload)}
        /\ Len(Details.conflicting_appointments)
               = Cardinality(Conflicting(call.payload))
        /\ Details.requested_time = call.payload.time
        /\ Details.requested_duration = call.payload.duration

\* a create was rejected that overlaps two stored appointments
C17_Witness ==
    /\ IsCreate(call) /\ IsError(result, "CONFLICT_ERROR")
    /\ Len(Details.conflicting_appointments) >= 2

(***************************************************************************)
(* C18.  For every reachable store, every appointment A in it and every    *)
(* filter F over date, status and provider name, list(F) contains A if and *)
(* only if A equals F on every field of F that is supplied and not empty;  *)
(* a filter that is absent or empty returns every appointment, and the     *)
(* result is in store order.                                               *)
(***************************************************************************)
FilterFields == {"date", "status", "doctor_name"}

\* filters over the three fields: values that some, one or no appointment
\* has, empty values, a value that differs by a trailing blank
Filters ==
    {DictValue(d) : d \in
        { [status |-> StrValue(Cancelled)],
          [status |-> StrValue(Confirmed)],
          [date |-> StrValue(Dec26)],
          [doctor_name |-> StrValue(DrSarahJohnson)],
          [doctor_name |-> StrValue(DrSarahJohnson \o <<" ">>)],
          [date |-> StrValue(Dec26), doctor_name |-> StrValue(DrSarahJohnson)],
          [date |-> StrValue(Dec26), status |-> StrValue(<<>>)],
          [date |-> StrValue(Dec26), doctor_name |-> StrValue(DrSarahJohnson),
           status |-> StrValue(Cancelled)],
          [date |-> StrValue(<<>>), doctor_name |-> StrValue(<<>>),
           status |-> StrValue(<<>>)],
          [date |-> StrValue(Feb30)] }}

Supplied(filters, key) ==
    key \in DOMAIN filters.v /\ filters.v[key].v # <<>>

Matches(a, filters) ==
    \A key \in FilterFields :
        Supplied(filters, key) => a[key] = filters.v[key].v

Matching(apts, filters) ==
    LET Match(a) == Matches(a, filters)
    IN  SelectSeq(apts, Match)

IsList(c) == c.op = "get_appointments"

C18_ListIsExact ==
    /\ \A filters \in Filters :
           get_appointments(appointments, filters)
               = Matching(appointments, filters)
    /\ get_appointments(appointments, NoneValue) = appointments
    /\ get_appointments(appointments, DictValue(<<>>)) = appointments
    /\ (IsList(call) /\ ~IsNone(call.filters))
           => result.v = Matching(before, call.filters)
    /\ (IsList(call) /\ IsNone(call.filters)) => result.v = before

\* after the store had changed, get_appointments returned some of the
\* appointments of the date and provider asked for and not the others
C18_Witness ==
    /\ IsList(call)
    /\ appointments # mock_appointments
    /\ Len(result.v) >= 2
    /\ \E i \in 1..Len(appointments) :
           /\ ~InList(result.v, appointments[i])
           /\ appointments[i].date = result.v[1].date
           /\ appointments[i].doctor_name # result.v[1].doctor_name

(***************************************************************************)
(* C19.  A list returned by list(filters) is a snapshot: whatever create,  *)
(* update_status and delete calls follow, the list holds the same members  *)
(* in the same order, with the field values they had when it was           *)
(* returned.                                                               *)
(***************************************************************************)
C19_ListIsSnapshot ==
    /\ Len(listed.refs) = Len(listed.values)
    /\ \A k \in 1..Len(listed.refs) :
           memory.heap[listed.refs[k]] = listed.values[k]

\* a list was returned, and since then one of its members was given another
\* status in the store and another was deleted from it
C19_Witness ==
    /\ ~IsList(call)
    /\ \E k \in 1..Len(listed.values) :
           /\ IsStored(appointments, listed.values[k].id)
           /\ ~InList(appointments, listed.values[k])
    /\ \E k \in 1..Len(listed.values) :
           ~IsStored(appointments, listed.values[k].id)

(***************************************************************************)
(* C20.  As stated: delete of a stored id returns true, and every further  *)
(* delete of the same id returns false, so that delete returns true once   *)
(* for an id.  create can generate the id of a deleted appointment again   *)
(* (C7), and delete then returns true for that id a second time.           *)
(***************************************************************************)
C20_DeleteTrueOnce ==
    \A i, j \in 1..Len(deleted) : i # j => deleted[i] # deleted[j]

(***************************************************************************)
(* C21.  delete_appointment of an id that no stored appointment has        *)
(* returns False, a bool and not an error dict, and the store is the list  *)
(* it was before the call.                                                 *)
(***************************************************************************)
IsDelete(c) == c.op = "delete_appointment"

C21_DeleteAbsentReturnsFalse ==
    (IsDelete(call) /\ ~IsStored(before, call.appointment_id))
        => /\ result = BoolValue(FALSE)
           /\ appointments = before

\* an id was deleted, and a later delete of the same id found nothing
C21_Witness ==
    /\ IsDelete(call)
    /\ ~IsStored(before, call.appointment_id)
    /\ \E k \in 1..Len(deleted) : deleted[k] = call.appointment_id

(***************************************************************************)
(* C22.  A delete that returns True removes the record with that id and    *)
(* nothing else: the store is the list before the call with one position   *)
(* taken out, the other appointments keep their fields and their order,    *)
(* and get_appointment_by_id returns each of them.                         *)
(***************************************************************************)
RemovedAt(i) ==
    /\ before[i].id = call.appointment_id
    /\ appointments = SubSeq(before, 1, i - 1)
                          \o SubSeq(before, i + 1, Len(before))
    /\ \A j \in (1..Len(before)) \ {i} :
           get_appointment_by_id(appointments, before[j].id)
               = AppointmentValue(before[j])

C22_DeleteRemovesOnlyThat ==
    (IsDelete(call) /\ result = BoolValue(TRUE))
        => \E i \in 1..Len(before) : RemovedAt(i)

\* an appointment with others before and after it in the store was deleted
C22_Witness ==
    /\ IsDelete(call) /\ result = BoolValue(TRUE)
    /\ \E i \in 2..(Len(before) - 1) : before[i].id = call.appointment_id

(***************************************************************************)
(* C23.  Deletion is a hard remove.  Once delete_appointment has returned  *)
(* True for an id, and as long as create has not issued that id again,     *)
(* get_appointment_by_id returns None for it, no list get_appointments     *)
(* returns has a member with it, and update_appointment_status with a      *)
(* status of the enumeration returns NOT_FOUND.                            *)
(***************************************************************************)
Count(seq, x) == Cardinality({k \in 1..Len(seq) : seq[k] = x})

SeedCount(appointment_id) ==
    Cardinality({k \in 1..Len(mock_appointments) :
                     mock_appointments[k].id = appointment_id})

\* every appointment that has had the id, of the seed data or created, has
\* been deleted: no create has issued the id since the last delete
Gone(appointment_id) ==
    /\ Count(deleted, appointment_id) >= 1
    /\ Count(deleted, appointment_id)
           = SeedCount(appointment_id) + Count(issued, appointment_id)

NoMember(list, appointment_id) ==
    \A k \in 1..Len(list) : list[k].id # appointment_id

HardRemoved(appointment_id) ==
    /\ IsNone(get_appointment_by_id(appointments, appointment_id))
    /\ NoMember(get_appointments(appointments, NoneValue), appointment_id)
    /\ \A filters \in Filters :
           NoMember(get_appointments(appointments, filters), appointment_id)
    /\ \A status \in StatusEnum :
           IsError(update_appointment_status(appointments, appointment_id,
                                             StrValue(status)).ret,
                   "NOT_FOUND")

C23_DeleteIsHardRemove ==
    /\ \A k \in 1..Len(deleted) : Gone(deleted[k]) => HardRemoved(deleted[k])
    /\ IsList(call) =>
           \A k \in 1..Len(deleted) :
               Gone(deleted[k]) => NoMember(result.v, deleted[k])
    /\ ( /\ IsUpdate(call) /\ Gone(call.appointment_id)
         /\ call.new_status.v \in StatusEnum )
           => IsError(result, "NOT_FOUND")

\* an appointment was created and deleted, and update_appointment_status
\* was then called with its id
C23_Witness ==
    /\ IsUpdate(call) /\ Gone(call.appointment_id)
    /\ call.new_status.v \in StatusEnum
    /\ Count(issued, call.appointment_id) >= 1

(***************************************************************************)
(* C24.  When a payload lacks a required field or holds it empty (the      *)
(* empty str, 0, None), validate_appointment_data returns invalid and its  *)
(* errors are one "Missing required field" message for each such field and *)
(* nothing else, whatever the other fields hold; create_appointment        *)
(* answers the payload with VALIDATION_ERROR and the same list.            *)
(***************************************************************************)
IsValidate(c) == c.op = "validate_appointment_data"

IsEmpty(x) ==
    CASE x.t = "str" -> x.v = <<>>
      [] x.t = "NoneType" -> TRUE
      [] OTHER -> x.v = 0

Lacking(data) ==
    {f \in Range(required_fields) : f \notin DOMAIN data \/ IsEmpty(data[f])}

OnlyMissingErrors(data, errors) ==
    /\ Len(errors) = Cardinality(Lacking(data))
    /\ \A f \in Lacking(data) :
           \E k \in 1..Len(errors) :
               errors[k] = <<"Missing required field: ", f>>

C24_MissingFieldsOnly ==
    /\ (IsValidate(call) /\ Lacking(call.payload) # {})
           => /\ ~result.v.is_valid
              /\ OnlyMissingErrors(call.payload, result.v.errors)
    /\ (IsCreate(call) /\ Lacking(call.payload) # {})
           => /\ IsError(result, "VALIDATION_ERROR")
              /\ OnlyMissingErrors(call.payload,
                                   result.v.error.details.validation_errors)
              /\ appointments = before

\* the validator was given a payload without one required field and with a
\* duration out of range
C24_Witness ==
    /\ IsValidate(call)
    /\ Cardinality(Lacking(call.payload)) = 1
    /\ "duration" \in DOMAIN call.payload
    /\ call.payload.duration.t = "int" /\ call.payload.duration.v = 481

(***************************************************************************)
(* C25.  As stated: when every required field is present and not empty,    *)
(* validate_appointment_data reports each violated rule with one error and *)
(* returns valid exactly when no rule is violated.  The rules are those of *)
(* the validator's contract: names of stripped length 2 or more, a date in *)
(* the form YYYY-MM-DD that is a real date, a time in the form HH:MM, an   *)
(* integer duration from 1 to 480, a mode and, if present, a status of the *)
(* enumerations.  The validator skips a status that is present and empty,  *)
(* and strptime accepts dates and times that are not in the strict form.   *)
(***************************************************************************)
NameOk(x) == x.t = "str" /\ Len(strip(x.v)) >= 2

AllDigits(s, positions) == \A p \in positions : At(s, p, Digit)

\* four-digit year, two-digit month, two-digit day, of a real date
StrictDate(s) ==
    /\ Len(s) = 10
    /\ AllDigits(s, {1, 2, 3, 4, 6, 7, 9, 10})
    /\ s[5] = "-" /\ s[8] = "-"
    /\ ToInt(SubSeq(s, 1, 4)) >= 1
    /\ ToInt(SubSeq(s, 6, 7)) \in 1..12
    /\ ToInt(SubSeq(s, 9, 10)) >= 1
    /\ ToInt(SubSeq(s, 9, 10))
           <= DaysInMonth(ToInt(SubSeq(s, 1, 4)), ToInt(SubSeq(s, 6, 7)))

\* two-digit hour of the 24-hour clock, two-digit minute
StrictTime(s) ==
    /\ Len(s) = 5
    /\ AllDigits(s, {1, 2, 4, 5})
    /\ s[3] = ":"
    /\ ToInt(SubSeq(s, 1, 2)) <= 23
    /\ ToInt(SubSeq(s, 4, 5)) <= 59

\* an int (a bool is one) from 1 to 480
DurationOk(x) == x.t \in {"int", "bool"} /\ x.v >= 1 /\ x.v <= 480

\* the rules a payload with every required field violates, named by field
Violations(data) ==
    {f \in FieldNames :
        CASE f = "patient_name" -> ~NameOk(data.patient_name)
          [] f = "date" -> ~(data.date.t = "str" /\ StrictDate(data.date.v))
          [] f = "time" -> ~(data.time.t = "str" /\ StrictTime(data.time.v))
          [] f = "duration" -> ~DurationOk(data.duration)
          [] f = "doctor_name" -> ~NameOk(data.doctor_name)
          [] f = "mode" ->
                 ~(data.mode.t = "str" /\ data.mode.v \in Range(valid_modes))
          [] f = "status" ->
                 /\ "status" \in DOMAIN data
                 /\ ~(data.status.t = "str" /\ data.status.v \in StatusEnum)}

C25_ValidatorReportsEveryRule ==
    (IsValidate(call) /\ Lacking(call.payload) = {})
        => /\ result.v.is_valid <=> Violations(call.payload) = {}
           /\ Len(result.v.errors) = Cardinality(Violations(call.payload))

(***************************************************************************)
(* C26.  create_appointment stores a payload only if its duration is an    *)
(* int from 1 to 480: a payload whose duration is absent, 0, negative,     *)
(* above 480 or not an int is answered with VALIDATION_ERROR, and every    *)
(* stored appointment has a duration from 1 to 480.                        *)
(***************************************************************************)
HasDuration(payload) ==
    "duration" \in DOMAIN payload /\ DurationOk(payload.duration)

C26_DurationInRange ==
    /\ Created => HasDuration(call.payload)
    /\ (IsCreate(call) /\ ~HasDuration(call.payload))
           => IsError(result, "VALIDATION_ERROR")
    /\ \A i \in 1..Len(appointments) : appointments[i].duration \in 1..480

\* a payload with the longest duration allowed was stored
C26_Witness ==
    /\ Created
    /\ call.payload.duration.v = 480
    /\ appointments[Len(appointments)].duration = 480

(***************************************************************************)
(* C27.  As stated: every stored appointment has its date in the form      *)
(* YYYY-MM-DD (ten characters, a real date) and its time in the form HH:MM *)
(* (five characters, 24-hour clock), and create_appointment answers a      *)
(* payload whose date or time is not in that form with VALIDATION_ERROR.   *)
(* strptime also matches a month, day or hour of one digit, so such dates  *)
(* and times are accepted and stored as they were sent.                    *)
(***************************************************************************)
StrictSlot(payload) ==
    /\ "date" \in DOMAIN payload /\ payload.date.t = "str"
    /\ StrictDate(payload.date.v)
    /\ "time" \in DOMAIN payload /\ payload.time.t = "str"
    /\ StrictTime(payload.time.v)

C27_StrictFormats ==
    /\ \A i \in 1..Len(appointments) :
           /\ StrictDate(appointments[i].date)
           /\ StrictTime(appointments[i].time)
    /\ (IsCreate(call) /\ ~StrictSlot(call.payload))
           => IsError(result, "VALIDATION_ERROR")

(***************************************************************************)
(* C28.  As stated: every failure, of a service method and of an HTTP      *)
(* handler, is reported as {success: false, error: {code, message,         *)
(* details}} with code one of VALIDATION_ERROR, CONFLICT_ERROR, NOT_FOUND, *)
(* SERVER_ERROR.  The handlers build some failure bodies themselves: the   *)
(* one for a missing request body has no details, and the one for a delete *)
(* that finds nothing has no error at all.                                 *)
(***************************************************************************)
ErrorCodes == {"VALIDATION_ERROR", "CONFLICT_ERROR", "NOT_FOUND", "SERVER_ERROR"}

IsEnvelope(body) ==
    /\ DOMAIN body = {"success", "error"}
    /\ ~body.success
    /\ DOMAIN body.error = {"code", "message", "details"}
    /\ body.error.code \in ErrorCodes

\* the body of a response that reports a failure
Failed(w) ==
    /\ response[w].status # 0
    /\ "success" \in DOMAIN response[w].body
    /\ ~response[w].body.success

C28_UniformErrorEnvelope ==
    /\ result.t = "dict" => IsEnvelope(result.v)
    /\ \A w \in Workers : Failed(w) => IsEnvelope(response[w].body)

(***************************************************************************)
(* C29.  create_appointment removes the whitespace around the provider     *)
(* name before it looks for conflicts and before it stores the record: a   *)
(* create that passes validation is answered CONFLICT_ERROR exactly when a *)
(* stored appointment that is not cancelled has the trimmed name, the same *)
(* date and an overlapping interval; a created record holds the trimmed    *)
(* names; and every stored patient and provider name has no whitespace at  *)
(* either end and at least two characters.                                 *)
(***************************************************************************)
Trimmed(name) == name = strip(name) /\ Len(name) >= 2

\* the provider name was sent with whitespace around it
Padded(payload) ==
    /\ "doctor_name" \in DOMAIN payload
    /\ payload.doctor_name.t = "str"
    /\ payload.doctor_name.v # strip(payload.doctor_name.v)

C29_ProviderNameTrimmed ==
    /\ \A i \in 1..Len(appointments) :
           /\ Trimmed(appointments[i].patient_name)
           /\ Trimmed(appointments[i].doctor_name)
    /\ (IsCreate(call) /\ PassesValidation(call.payload)) =>
           (IsError(result, "CONFLICT_ERROR")
                <=> Conflicting(call.payload) # {})
    /\ Created =>
           /\ result.v.doctor_name = strip(call.payload.doctor_name.v)
           /\ result.v.patient_name = strip(call.payload.patient_name.v)

\* a create that sent a padded provider name was refused for a conflict
C29_Witness ==
    /\ IsCreate(call) /\ Padded(call.payload)
    /\ IsError(result, "CONFLICT_ERROR")

(***************************************************************************)
(* C30.  create_appointment checks in a fixed order: the validator, then   *)
(* the status enumeration, then the conflicts.  A payload the validator    *)
(* refuses is answered VALIDATION_ERROR with the validator's error list; a *)
(* payload the validator accepts and whose status is not of the            *)
(* enumeration is answered VALIDATION_ERROR with the valid statuses; this  *)
(* also when the payload overlaps a stored appointment of its provider and *)
(* date that is not cancelled.  CONFLICT_ERROR is returned only for a      *)
(* payload that passes both checks.                                        *)
(***************************************************************************)
\* the payload names a provider and a slot that can be compared with the
\* stored appointments
HasSlot(p) ==
    /\ {"doctor_name", "date", "time", "duration"} \subseteq DOMAIN p
    /\ p.doctor_name.t = "str"
    /\ validate_date_format(p.date) /\ validate_time_format(p.time)
    /\ IsInt(p.duration)

InvalidAndOverlapping(p) ==
    /\ ~PassesValidation(p)
    /\ HasSlot(p) /\ Conflicting(p) # {}

C30_FixedCheckOrder ==
    IsCreate(call) =>
        /\ ~validate_appointment_data(call.payload).is_valid
               => /\ IsError(result, "VALIDATION_ERROR")
                  /\ DOMAIN Details = {"validation_errors"}
        /\ (/\ validate_appointment_data(call.payload).is_valid
            /\ ~validate_status_value(PayloadStatus(call.payload)))
               => /\ IsError(result, "VALIDATION_ERROR")
                  /\ DOMAIN Details = {"valid_statuses"}
        /\ InvalidAndOverlapping(call.payload)
               => IsError(result, "VALIDATION_ERROR")
        /\ IsError(result, "CONFLICT_ERROR") => PassesValidation(call.payload)

\* a create whose payload fails validation and overlaps a stored appointment
\* was answered VALIDATION_ERROR
C30_Witness ==
    /\ IsCreate(call) /\ InvalidAndOverlapping(call.payload)
    /\ IsError(result, "VALIDATION_ERROR")

(***************************************************************************)
(* C31.  After a create that returned an Appointment the store has one     *)
(* appointment more than before the call, the new record is the last one,  *)
(* and the records before it are those of the store before the call, each  *)
(* with the fields it had and in the same order.                           *)
(***************************************************************************)
C31_CreateAppendsOne ==
    Created =>
        /\ Len(appointments) = Len(before) + 1
        /\ appointments[Len(appointments)] = result.v
        /\ \A i \in 1..Len(before) : appointments[i] = before[i]

\* a create succeeded on a store that held other appointments
C31_Witness ==
    /\ Created
    /\ Len(before) >= 2
    /\ appointments[Len(before) + 1].id = result.v.id
    /\ \A i \in 1..Len(before) : before[i].id # result.v.id

(***************************************************************************)
(* C32.  As stated: the id loop of create_appointment ends only with a     *)
(* candidate that no stored appointment has; while at least one id uuid4   *)
(* can yield is not stored, and each of those values keeps being drawn, a  *)
(* create call that is in the loop leaves it; and every create call that   *)
(* has returned has returned an Appointment or an error dict.  The loop    *)
(* behaves as stated, but a create for the last minutes of 9999-12-31      *)
(* leaves the method with an OverflowError.                                *)
(***************************************************************************)
Unused == {hex \in HexDraws : ~Collides(appointments, hex)}

Returned == ~InLoop /\ IsCreate(call)

ExitsWithFreshId ==
    Created => \A i \in 1..Len(before) : before[i].id # result.v.id

ReturnsValue == Returned => result.t \in {"Appointment", "dict"}

C32_IdLoopTerminates ==
    /\ [](ExitsWithFreshId /\ ReturnsValue)
    /\ (InLoop /\ Unused # {}) ~> Returned

(***************************************************************************)
(* C33.  When create_appointment calls the conflict detector, neither of   *)
(* its two except branches is taken: the date and time of a payload that   *)
(* passed the validator parse together as "%Y-%m-%d %H:%M", and in every   *)
(* reachable state the date and time of every stored appointment do, so no *)
(* stored appointment is left out of the comparison for a parse failure.   *)
(***************************************************************************)
ParsesSlot(date, time) == strptime(date \o <<" ">> \o time, DateTimeFormat).ok

\* the call went on to the conflict detector
ReachedDetector ==
    /\ IsCreate(call) /\ PassesValidation(call.payload)
    /\ ~NewEndOverflows(call.payload)

\* the detector left out a stored appointment of the provider and date
\* asked for, not cancelled, because its date and time did not parse
SkippedUnparsed ==
    \E i \in 1..Len(before) :
        /\ SameProviderDate(before[i], call.payload)
        /\ before[i].status # Cancelled
        /\ ~ParsesSlot(before[i].date, before[i].time)

C33_DefensivePathUnused ==
    /\ \A i \in 1..Len(appointments) :
           ParsesSlot(appointments[i].date, appointments[i].time)
    /\ (IsCreate(call) /\ PassesValidation(call.payload))
           => ParsesSlot(call.payload.date.v, call.payload.time.v)
    /\ ReachedDetector => ~SkippedUnparsed

\* the detector compared a payload whose time has a one-digit hour with a
\* stored appointment of its provider and date, and found the overlap
C33_Witness ==
    /\ ReachedDetector
    /\ ~StrictSlot(call.payload)
    /\ IsError(result, "CONFLICT_ERROR")

(***************************************************************************)
(* C34.  Deletion frees the slot.  In the state a delete_appointment that  *)
(* returned True for appointment X leaves, create_appointment with X's     *)
(* patient, provider, date, time, duration and mode returns an Appointment *)
(* exactly when no appointment other than X, not cancelled, of that        *)
(* provider and date overlapped the slot, and a CONFLICT_ERROR otherwise;  *)
(* and a create that asks for the slot of a removed appointment is         *)
(* answered from the stored appointments alone.                            *)
(***************************************************************************)
SlotPayload(x) ==
    Payload(x.patient_name, x.date, x.time, x.duration, x.doctor_name, x.mode)

DeletedNow == IsDelete(call) /\ result.t = "bool" /\ result.v

\* the appointment the delete removed, and its position in the store before
RemovedIndex == IndexOf(before, call.appointment_id)
Removed == before[RemovedIndex]

\* an appointment other than the removed one, not cancelled, overlapped it
OtherOverlaps ==
    \E i \in 1..Len(before) :
        /\ i # RemovedIndex
        /\ before[i].status # Cancelled
        /\ SameProviderDate(before[i], SlotPayload(Removed))
        /\ OverlapsPayload(before[i], SlotPayload(Removed))

Rebooked(draws) ==
    create_appointment(appointments, SlotPayload(Removed), draws).ret

\* objects the store no longer holds whose id a delete returned True for
Freed ==
    {r \in DOMAIN memory.heap :
        /\ \A k \in 1..Len(memory.refs) : memory.refs[k] # r
        /\ \E k \in 1..Len(deleted) : deleted[k] = memory.heap[r].id}

AsksFor(payload, x) ==
    /\ SameProviderDate(x, payload)
    /\ x.time = payload.time.v /\ x.duration = payload.duration.v

AsksForFreed(payload) ==
    \E r \in Freed :
        /\ memory.heap[r].status # Cancelled
        /\ AsksFor(payload, memory.heap[r])

C34_DeleteFreesSlot ==
    /\ DeletedNow =>
           \A draws \in LoopDraws(appointments) :
               /\ Rebooked(draws).t = "Appointment" <=> ~OtherOverlaps
               /\ Rebooked(draws).t # "Appointment"
                      => IsError(Rebooked(draws), "CONFLICT_ERROR")
    /\ (IsCreate(call) /\ PassesValidation(call.payload)
            /\ AsksForFreed(call.payload))
           => (Created <=> Conflicting(call.payload) = {})

\* an appointment that was not cancelled was deleted, and a create for its
\* slot returned an appointment
C34_Witness ==
    /\ Created /\ AsksForFreed(call.payload)
    /\ \A i \in 1..Len(before) : ~AsksFor(call.payload, before[i])

(***************************************************************************)
(* C35.  The conflict detector compares the candidate only with stored     *)
(* appointments whose date is the same text.  A create that passes         *)
(* validation and has no conflict among the appointments of its provider   *)
(* and date is stored, also when an appointment of the provider on the     *)
(* day before runs past midnight into its interval, or its own interval    *)
(* runs past midnight into an appointment of the day after; and the        *)
(* conflicts a CONFLICT_ERROR lists all have the candidate's date.         *)
(***************************************************************************)
\* stored appointments of the provider, not cancelled, on another date,
\* whose interval overlaps the one the payload asks for
OverlappingOtherDate(payload) ==
    {i \in 1..Len(before) :
        /\ before[i].status # Cancelled
        /\ before[i].doctor_name = strip(payload.doctor_name.v)
        /\ before[i].date # payload.date.v
        /\ OverlapsPayload(before[i], payload)}

ListedIds ==
    {Details.conflicting_appointments[k].id :
        k \in 1..Len(Details.conflicting_appointments)}

C35_ConflictsWithinDateOnly ==
    (IsCreate(call) /\ PassesValidation(call.payload)) =>
        /\ Conflicting(call.payload) = {} => Created
        /\ IsError(result, "CONFLICT_ERROR") =>
               /\ ListedIds = {before[i].id : i \in Conflicting(call.payload)}
               /\ Len(Details.conflicting_appointments)
                      = Cardinality(Conflicting(call.payload))

\* an appointment was created whose interval overlaps that of a stored
\* appointment of the same provider on the day before or after
C35_Witness ==
    /\ Created
    /\ OverlappingOtherDate(call.payload) # {}
    /\ \E i \in 1..Len(appointments) : \E j \in 1..Len(appointments) :
           /\ appointments[i].date # appointments[j].date
           /\ appointments[i].doctor_name = appointments[j].doctor_name
           /\ appointments[i].status # Cancelled
           /\ appointments[j].status # Cancelled
           /\ Start(appointments[i]) < End(appointments[j])
           /\ Start(appointments[j]) < End(appointments[i])

(***************************************************************************)
(* C36.  A payload whose status is present and empty (the empty string or  *)
(* None) gets from the validator what the same payload without status      *)
(* gets, so it passes when its other fields are in order; create then      *)
(* refuses it in its own status check with VALIDATION_ERROR and the valid  *)
(* statuses, stores nothing, and does not take "Scheduled" for it.         *)
(***************************************************************************)
EmptyStatus(payload) ==
    "status" \in DOMAIN payload /\ ~Truthy(payload.status)

C36_EmptyStatusRefused ==
    /\ (IsValidate(call) /\ EmptyStatus(call.payload))
           => result.v = validate_appointment_data(Without(call.payload,
                                                           "status"))
    /\ (IsCreate(call) /\ EmptyStatus(call.payload))
           => /\ IsError(result, "VALIDATION_ERROR")
              /\ appointments = before
              /\ validate_appointment_data(call.payload).is_valid
                     => DOMAIN Details = {"valid_statuses"}

\* a payload with an empty status passed the validator and was refused by
\* create's status check
C36_Witness ==
    /\ IsCreate(call) /\ EmptyStatus(call.payload)
    /\ call.payload.status.t = "str"
    /\ validate_appointment_data(call.payload).is_valid
    /\ IsError(result, "VALIDATION_ERROR")
    /\ DOMAIN Details = {"valid_statuses"}

(***************************************************************************)
(* C37.  As stated: an appointment that a create has returned is stored    *)
(* until a delete of its own id returns True, also when the requests are   *)
(* served concurrently by the HTTP layer.  The handlers take no lock: a    *)
(* delete of another id that has built its new list before the create      *)
(* appends, and assigns it afterwards, drops the appointment just created. *)
(***************************************************************************)
DeleteSucceeded(appointment_id) ==
    \E k \in 1..Len(deleted) : deleted[k] = appointment_id

C37_AcknowledgedCreateKept ==
    \A k \in 1..Len(issued) :
        ~DeleteSucceeded(issued[k]) => IsStored(appointments, issued[k])

=============================================================================
